---- MODULE Spec2Model ----
(***************************************************************************)
(* A model of the PDF-Processor text pipeline:                            *)
(*   PDFProcessor   (src/src/main/workers/pdf-processor.js, lines 29-524)  *)
(*   TextCorrector  (same file, lines 530-973)                             *)
(*   OCRWorker      (same file, lines 978-1346)                            *)
(*   MarkdownGenerator (src/src/utils/markdown-generator.js)               *)
(*                                                                         *)
(* A JavaScript string is a sequence of one-character strings.  Each       *)
(* regular expression of the source is an operator that scans the          *)
(* sequence from left to right the way String.prototype.replace / match    *)
(* does for that expression (leftmost match, greedy quantifiers, no        *)
(* overlapping matches under the g flag).                                  *)
(***************************************************************************)
EXTENDS Integers, Sequences, FiniteSets, TLC

VARIABLES
    \* PDFProcessor.processURLs / processURL
    urls,          \* the batch: what each URL serves and how its I/O ends
    settings,      \* the settings object handed to processURLs / processText
    urlIndex,      \* position of the for loop of processURLs (1-based)
    phase,         \* where processURL is suspended for the current job
    results,       \* the results array of processURLs
    events,        \* the 'processing-progress' messages sent so far
    activeJobs,    \* this.activeJobs: jobId -> [url, status, progress]
    outputFiles,   \* the files saveOutput has written
    clock,         \* the latest reading of the system clock
    \* TextCorrector
    ocrResults,    \* the argument of processText
    pc,            \* where processText is
    correctedText, \* text / correctedText of processText
    spellChecker,  \* this.spellChecker: "null", "nspell" or "fallback"
    pendingInit,   \* the calls of initializeSpellChecker not yet settled
    stageLog,      \* the stages run for the current document, in order
    \* MarkdownGenerator
    rendered,      \* the latest call of generate: its options and outcome
    \* restoreTextStructure, one loop iteration at a time
    loopLines,        \* lines: text.split('\n')
    loopIndex,        \* the loop variable i (1-based)
    loopProcessed,    \* processedLines
    loopParagraph,    \* currentParagraph
    processedFrom,    \* for each processed line, the input lines it joins
    paragraphFrom,    \* the input lines held in currentParagraph
    \* improveTextFlow, called twice
    flowIn,      \* the text improveTextFlow was first called with
    flowPrev,    \* the argument of the latest call of improveTextFlow
    flowText,    \* the value returned by the latest call (flowIn before any)
    flowCalls,   \* number of calls of improveTextFlow made so far
    \* OCRWorker.processImages, one loop iteration at a time
    imagePages,      \* the argument of processImages
    processedPages,  \* the counter of the loop: the pages done so far
    ocrPageResults,  \* results, the array of page results
    ocrWorker,       \* this.worker and this.isInitialized
    ocrSent,         \* the progress messages the worker has sent
    structuredText,  \* the value processImages returned (null before)
    liveWorkers,     \* the Tesseract workers created and not terminated
    \* MarkdownGenerator, one line at a time
    lineIn,        \* the line the generator's functions are called with
    lineCalls,     \* the functions called with it so far
    headingOut,    \* what detectHeading(lineIn) returned
    listItemOut,   \* what detectListItem(lineIn) returned
    contentOut,    \* what processContent(lineIn) returned
    \* TextCorrector's functions, called with one argument list
    wordIn,         \* the arguments: a word and its suggestions, or a text
    wordCalls,      \* the functions called with them so far
    suggestionOut,  \* what chooseBestSuggestion returned
    spellOut,       \* what performSpellCheck returned
    characterOut,   \* what fixCharacterErrors returned
    wordOut,        \* what fixWordErrors returned for characterOut
    \* MarkdownGenerator, called with a document of several lines
    docIn,        \* the text
    docOptions,   \* the options of generate
    docCalls,     \* the functions called with it so far
    docContent,   \* what processContent(docIn) returned
    docMarkdown   \* what generate(docIn, docOptions) returned

batchVars == <<urls, urlIndex, phase, results, events, activeJobs, outputFiles, clock>>

correctorVars == <<ocrResults, pc, correctedText, spellChecker, pendingInit, stageLog>>

structureVars ==
    <<loopLines, loopIndex, loopProcessed, loopParagraph, processedFrom, paragraphFrom>>

flowVars == <<flowIn, flowPrev, flowText, flowCalls>>

ocrVars ==
    <<imagePages, processedPages, ocrPageResults, ocrWorker, ocrSent, structuredText,
      liveWorkers>>

lineVars == <<lineIn, lineCalls, headingOut, listItemOut, contentOut>>

wordVars == <<wordIn, wordCalls, suggestionOut, spellOut, characterOut, wordOut>>

docVars == <<docIn, docOptions, docCalls, docContent, docMarkdown>>

\* What a step of processText leaves alone.
outsideCorrector == <<settings, batchVars, rendered, structureVars, flowVars, ocrVars, lineVars, wordVars, docVars>>


-----------------------------------------------------------------------------
(* Characters and character classes.                                       *)

UpperSeq ==
    <<"A","B","C","D","E","F","G","H","I","J","K","L","M",
      "N","O","P","Q","R","S","T","U","V","W","X","Y","Z">>

LowerSeq ==
    <<"a","b","c","d","e","f","g","h","i","j","k","l","m",
      "n","o","p","q","r","s","t","u","v","w","x","y","z">>

Upper == {UpperSeq[i] : i \in 1..26}

Lower == {LowerSeq[i] : i \in 1..26}

Digit == {"0","1","2","3","4","5","6","7","8","9"}

\* \s of a JavaScript regular expression (the ASCII part).
WS == {" ", "\n", "\t", "\r"}

\* \w of a JavaScript regular expression.
WordChar == Upper \cup Lower \cup Digit \cup {"_"}

\* [.!?]
SentenceEnd == {".", "!", "?"}

\* [,.;:!?]
FlowPunct == {",", ".", ";", ":", "!", "?"}

toUpperCaseChar(c) ==
    IF c \in Lower THEN UpperSeq[CHOOSE i \in 1..26 : LowerSeq[i] = c] ELSE c

toLowerCaseChar(c) ==
    IF c \in Upper THEN LowerSeq[CHOOSE i \in 1..26 : UpperSeq[i] = c] ELSE c

toUpperCase(s) == [i \in 1..Len(s) |-> toUpperCaseChar(s[i])]

toLowerCase(s) == [i \in 1..Len(s) |-> toLowerCaseChar(s[i])]

-----------------------------------------------------------------------------
(* String helpers: the JavaScript built-ins the source uses.               *)

MinOf(S) == CHOOSE x \in S : \A y \in S : x <= y

MaxOf(S) == CHOOSE x \in S : \A y \in S : y <= x

\* The first index j >= i with s[j] \notin S (Len(s)+1 if none): the end of a
\* greedy run S* that starts at i.
SkipWhile(s, i, S) ==
    IF i > Len(s) THEN i
    ELSE MinOf({j \in i..Len(s) : s[j] \notin S} \cup {Len(s) + 1})

\* The last index j <= i with s[j] \notin S (0 if none).
SkipBack(s, i, S) ==
    IF i < 1 THEN i
    ELSE MaxOf({j \in 1..i : s[j] \notin S} \cup {0})

\* The first index j >= i with s[j] \in S (Len(s)+1 if none).
SkipUntil(s, i, S) ==
    IF i > Len(s) THEN i
    ELSE MinOf({j \in i..Len(s) : s[j] \in S} \cup {Len(s) + 1})

\* String.prototype.trim
Trim(s) == SubSeq(s, SkipWhile(s, 1, WS), SkipBack(s, Len(s), WS))

\* String.prototype.trimEnd
TrimEnd(s) == SubSeq(s, 1, SkipBack(s, Len(s), WS))

\* s.split(c) for a one-character separator c: the pieces between the
\* occurrences of c, in order.
Split(s, c) ==
    LET at == {i \in 1..Len(s) : s[i] = c}
        \* the k-th occurrence of c; 0 and Len(s)+1 stand for the two ends
        nth(k) == IF k = 0 THEN 0
                  ELSE IF k > Cardinality(at) THEN Len(s) + 1
                  ELSE CHOOSE p \in at : Cardinality({q \in at : q < p}) = k - 1
    IN  [k \in 1..(Cardinality(at) + 1) |-> SubSeq(s, nth(k - 1) + 1, nth(k) - 1)]

\* parts.join(sep)
RECURSIVE Join(_, _)
Join(parts, sep) ==
    IF Len(parts) = 0 THEN <<>>
    ELSE IF Len(parts) = 1 THEN parts[1]
    ELSE parts[1] \o sep \o Join(Tail(parts), sep)

\* Whether the literal pat occurs in s at index i.
MatchAt(s, i, pat) ==
    /\ i + Len(pat) - 1 <= Len(s)
    /\ \A k \in 1..Len(pat) : s[i + k - 1] = pat[k]

\* s.includes(pat)
Includes(s, pat) == \E i \in 1..(Len(s) + 1) : MatchAt(s, i, pat)

\* s.replace(new RegExp(<pat, escaped>, 'g'), rep) for a literal pat.
RECURSIVE ReplaceAllFrom(_, _, _, _)
ReplaceAllFrom(s, i, pat, rep) ==
    LET starts == {p \in i..Len(s) : MatchAt(s, p, pat)}
    IN  IF starts = {} THEN SubSeq(s, i, Len(s))
        ELSE LET p == MinOf(starts)
             IN  SubSeq(s, i, p - 1) \o rep \o ReplaceAllFrom(s, p + Len(pat), pat, rep)

ReplaceAll(s, pat, rep) == ReplaceAllFrom(s, 1, pat, rep)

\* All sequences over A of length at most n.
StringsUpTo(A, n) == UNION {[1..k -> A] : k \in 0..n}

-----------------------------------------------------------------------------
(* TextCorrector.initializeOCRPatterns: the three rule tables, each entry  *)
(* <<error, correction>>, in the order the object literal is written.      *)

characterErrors ==
    <<<<<<"r","n">>, <<"m">>>>,
      <<<<"c","l">>, <<"d">>>>,
      <<<<"i","i">>, <<"l","l">>>>,
      <<<<"0">>, <<"o">>>>,
      <<<<"1">>, <<"l">>>>,
      <<<<"5">>, <<"S">>>>,
      <<<<"8">>, <<"B">>>>,
      <<<<"v","v">>, <<"w">>>>,
      <<<<"V","V">>, <<"W">>>>,
      <<<<"n","n">>, <<"n">>>>,
      <<<<"o","o">>, <<"o">>>>>>

wordErrors ==
    <<<<<<"t","l","i","e">>, <<"t","h","e">>>>,
      <<<<"l","i","a","v","e">>, <<"h","a","v","e">>>>,
      <<<<"w","i","t","l","i">>, <<"w","i","t","h">>>>,
      <<<<"t","l","i","i","s">>, <<"t","h","i","s">>>>,
      <<<<"t","l","i","a","t">>, <<"t","h","a","t">>>>,
      <<<<"w","l","i","i","c","h">>, <<"w","h","i","c","h">>>>,
      <<<<"w","l","i","e","n">>, <<"w","h","e","n">>>>,
      <<<<"w","l","i","e","r","e">>, <<"w","h","e","r","e">>>>,
      <<<<"l","i","e","r","e">>, <<"h","e","r","e">>>>,
      <<<<"t","l","i","e","r","e">>, <<"t","h","e","r","e">>>>,
      <<<<"l","i","i","s">>, <<"h","i","s">>>>,
      <<<<"l","i","e","r">>, <<"h","e","r">>>>,
      <<<<"l","i","i","m">>, <<"h","i","m">>>>,
      <<<<"o","t","l","i","e","r">>, <<"o","t","h","e","r">>>>,
      <<<<"a","n","o","t","l","i","e","r">>, <<"a","n","o","t","h","e","r">>>>,
      <<<<"f","u","r","t","l","i","e","r">>, <<"f","u","r","t","h","e","r">>>>>>

punctuationErrors ==
    <<<<<<",",",">>, <<",">>>>,
      <<<<".",".">>, <<".">>>>,
      <<<<";",";">>, <<";">>>>,
      <<<<":",":">>, <<":">>>>,
      <<<<"?","?">>, <<"?">>>>,
      <<<<"!","!">>, <<"!">>>>,
      <<<<" ",",">>, <<",">>>>,
      <<<<" ",".">>, <<".">>>>,
      <<<<" ",";">>, <<";">>>>,
      <<<<" ",":">>, <<":">>>>,
      <<<<" ","?">>, <<"?">>>>,
      <<<<" ","!">>, <<"!">>>>>>

-----------------------------------------------------------------------------
(* Object.entries(obj): the own keys that are array indices ("0", "1", ..) *)
(* come first, in ascending numeric order, then the other string keys in   *)
(* the order they were written.                                            *)

DigitSeq == <<"0","1","2","3","4","5","6","7","8","9">>

DigitValue(c) == (CHOOSE i \in 1..10 : DigitSeq[i] = c) - 1

RECURSIVE NumValue(_)
NumValue(k) ==
    IF Len(k) = 0 THEN 0
    ELSE 10 * NumValue(SubSeq(k, 1, Len(k) - 1)) + DigitValue(k[Len(k)])

\* A canonical numeric string: an integer-like property key.
IsArrayIndex(k) ==
    /\ Len(k) >= 1
    /\ \A i \in 1..Len(k) : k[i] \in Digit
    /\ (Len(k) = 1 \/ k[1] # "0")

\* The entries of obj (distinct keys) that satisfy keep(key), in written order.
RECURSIVE SelectEntries(_, _)
SelectEntries(obj, wantIndex) ==
    IF Len(obj) = 0 THEN <<>>
    ELSE (IF IsArrayIndex(obj[1][1]) = wantIndex THEN <<obj[1]>> ELSE <<>>)
             \o SelectEntries(Tail(obj), wantIndex)

\* es sorted by ascending numeric key.
RECURSIVE SortByIndex(_)
SortByIndex(es) ==
    IF Len(es) = 0 THEN <<>>
    ELSE LET m == CHOOSE i \in 1..Len(es) :
                      \A j \in 1..Len(es) : NumValue(es[i][1]) <= NumValue(es[j][1])
         IN  <<es[m]>> \o SortByIndex(SubSeq(es, 1, m - 1) \o SubSeq(es, m + 1, Len(es)))

ObjectEntries(obj) ==
    SortByIndex(SelectEntries(obj, TRUE)) \o SelectEntries(obj, FALSE)

-----------------------------------------------------------------------------
(* TextCorrector.fixCharacterErrors / fixWordErrors / fixPunctuationErrors *)

\* entries.forEach(([error, correction]) =>
\*     corrected = corrected.replace(new RegExp(error, 'g'), correction))
\* for keys without regular-expression metacharacters.
RECURSIVE applyLiteralRules(_, _)
applyLiteralRules(text, entries) ==
    IF Len(entries) = 0 THEN text
    ELSE applyLiteralRules(ReplaceAll(text, entries[1][1], entries[1][2]),
                           Tail(entries))

fixCharacterErrors(text) ==
    applyLiteralRules(text, ObjectEntries(characterErrors))

\* \b at the gap before index i of s (1 <= i <= Len(s)+1).
WordBoundary(s, i) ==
    LET before == i > 1 /\ s[i - 1] \in WordChar
        after  == i <= Len(s) /\ s[i] \in WordChar
    IN  before # after

\* Whether /\b<pat>\b/i matches s at index i.
MatchWordAt(s, i, pat) ==
    /\ i + Len(pat) - 1 <= Len(s)
    /\ \A k \in 1..Len(pat) : toLowerCaseChar(s[i + k - 1]) = toLowerCaseChar(pat[k])
    /\ WordBoundary(s, i)
    /\ WordBoundary(s, i + Len(pat))

\* s.replace(new RegExp('\\b' + escapeRegExp(error) + '\\b', 'gi'), correction)
RECURSIVE replaceWord(_, _, _, _)
replaceWord(s, i, pat, rep) ==
    LET starts == {p \in i..Len(s) : MatchWordAt(s, p, pat)}
    IN  IF starts = {} THEN SubSeq(s, i, Len(s))
        ELSE LET p == MinOf(starts)
             IN  SubSeq(s, i, p - 1) \o rep \o replaceWord(s, p + Len(pat), pat, rep)

RECURSIVE applyWordRules(_, _)
applyWordRules(text, entries) ==
    IF Len(entries) = 0 THEN text
    ELSE applyWordRules(replaceWord(text, 1, entries[1][1], entries[1][2]),
                        Tail(entries))

fixWordErrors(text) == applyWordRules(text, ObjectEntries(wordErrors))

fixPunctuationErrors(text) ==
    applyLiteralRules(text, ObjectEntries(punctuationErrors))

-----------------------------------------------------------------------------
(* TextCorrector.restoreTextStructure and its line predicates.             *)

\* The bullet characters of /^\s*[•‣◦⁃∙\-\*]\s/;
\* a non-ASCII character is written as its code point.
BulletChars == {"U+2022", "U+2023", "U+25E6", "U+2043", "U+2219", "-", "*"}

\* line.match(/^---\s*Page\s+\d+\s*---$/)
isPageMarker(line) ==
    LET dashes == <<"-","-","-">>
        a == SkipWhile(line, 4, WS)            \* after ---\s*
        b == SkipWhile(line, a + 4, WS)        \* after Page\s+
        c == SkipWhile(line, b, Digit)         \* after \d+
        d == SkipWhile(line, c, WS)            \* after \s*
    IN  /\ MatchAt(line, 1, dashes)
        /\ MatchAt(line, a, <<"P","a","g","e">>)
        /\ b > a + 4
        /\ c > b
        /\ MatchAt(line, d, dashes)
        /\ d + 2 = Len(line)

\* line.match(/^[A-Z]/)
startsWithCapital(line) == Len(line) >= 1 /\ line[1] \in Upper

\* line.match(/^\s*[•‣◦⁃∙\-\*]\s/)
startsWithBullet(line) ==
    LET a == SkipWhile(line, 1, WS)
    IN  a + 1 <= Len(line) /\ line[a] \in BulletChars /\ line[a + 1] \in WS

\* line.match(/^\s*\d+[\.\)]\s/)
startsWithNumber(line) ==
    LET a == SkipWhile(line, 1, WS)
        b == SkipWhile(line, a, Digit)
    IN  b > a /\ b + 1 <= Len(line) /\ line[b] \in {".", ")"} /\ line[b + 1] \in WS

looksLikeHeading(line) ==
    IF Len(line) < 3 THEN FALSE
    ELSE IF Len(line) > 100 THEN FALSE
    \* line === line.toUpperCase() && line.length < 50
    ELSE IF line = toUpperCase(line) /\ Len(line) < 50 THEN TRUE
    \* /^[A-Z]\d*[\.\)]\s/
    ELSE IF /\ line[1] \in Upper
            /\ LET b == SkipWhile(line, 2, Digit)
               IN  b + 1 <= Len(line) /\ line[b] \in {".", ")"} /\ line[b + 1] \in WS
         THEN TRUE
    \* /^\d+[\.\)]\s/
    ELSE IF LET b == SkipWhile(line, 1, Digit)
            IN  b > 1 /\ b + 1 <= Len(line) /\ line[b] \in {".", ")"}
                      /\ line[b + 1] \in WS
         THEN TRUE
    \* /^[IVX]+[\.\)]\s/
    ELSE IF LET b == SkipWhile(line, 1, {"I", "V", "X"})
            IN  b > 1 /\ b + 1 <= Len(line) /\ line[b] \in {".", ")"}
                      /\ line[b + 1] \in WS
         THEN TRUE
    ELSE FALSE

\* A last rule that looks for a period only.
shouldMergeWithPrevious_PeriodOnly(line, paragraph) ==
    IF Len(paragraph) = 0 THEN FALSE
    ELSE IF looksLikeHeading(line) THEN FALSE
    ELSE IF startsWithBullet(line) \/ startsWithNumber(line) THEN FALSE
    ELSE LET lastLine == paragraph[Len(paragraph)]
             endsPeriod == Len(lastLine) >= 1 /\ lastLine[Len(lastLine)] = "."
         IN  IF endsPeriod /\ startsWithCapital(line) THEN FALSE
             ELSE IF ~startsWithCapital(line) THEN TRUE
             ELSE IF ~endsPeriod THEN TRUE
             ELSE FALSE

\* shouldMergeWithPrevious(line, currentParagraph), lines 767-788.
shouldMergeWithPrevious(line, paragraph) ==
    IF Len(paragraph) = 0 THEN FALSE
    ELSE IF looksLikeHeading(line) THEN FALSE
    ELSE IF startsWithBullet(line) \/ startsWithNumber(line) THEN FALSE
    ELSE LET lastLine == paragraph[Len(paragraph)]
             endsPeriod   == Len(lastLine) >= 1 /\ lastLine[Len(lastLine)] = "."
             endsSentence == Len(lastLine) >= 1
                                 /\ lastLine[Len(lastLine)] \in SentenceEnd
         IN  IF endsPeriod /\ startsWithCapital(line) THEN FALSE
             ELSE IF ~startsWithCapital(line) THEN TRUE
             ELSE IF ~endsSentence THEN TRUE
             ELSE FALSE

-----------------------------------------------------------------------------
(* TextCorrector.restoreTextStructure: one pass over the lines with the    *)
(* accumulator currentParagraph.  structureKind names the branch the loop  *)
(* body takes for a line; structureProcessed and structureParagraph are    *)
(* the values of processedLines and currentParagraph after that branch.    *)

JoinSpace(paragraph) == Join(paragraph, <<" ">>)

\* line is lines[i].trim().
structureKind(line, currentParagraph) ==
    IF isPageMarker(line) THEN "marker"
    ELSE IF Len(line) = 0 THEN "blank"
    ELSE IF shouldMergeWithPrevious(line, currentParagraph) THEN "merge"
    ELSE "new"

structureFlush(processedLines, currentParagraph) ==
    IF Len(currentParagraph) > 0
    THEN Append(processedLines, JoinSpace(currentParagraph))
    ELSE processedLines

\* A loop that pushes the pending paragraph at a page marker.
structureProcessed_MarkerFlushes(kind, processedLines, currentParagraph) ==
    CASE kind = "marker" -> structureFlush(processedLines, currentParagraph)
      [] kind = "blank"  -> Append(structureFlush(processedLines, currentParagraph), <<>>)
      [] kind = "merge"  -> processedLines
      [] kind = "new"    -> structureFlush(processedLines, currentParagraph)

structureProcessed(kind, processedLines, currentParagraph) ==
    CASE kind = "marker" -> processedLines
      [] kind = "blank"  -> Append(structureFlush(processedLines, currentParagraph), <<>>)
      [] kind = "merge"  -> processedLines
      [] kind = "new"    -> structureFlush(processedLines, currentParagraph)

structureParagraph(kind, line, currentParagraph) ==
    CASE kind = "marker" -> currentParagraph
      [] kind = "blank"  -> <<>>
      [] kind = "merge"  -> Append(currentParagraph, line)
      [] kind = "new"    -> <<line>>

RECURSIVE structureLoop(_, _, _, _)
structureLoop(lines, i, processedLines, currentParagraph) ==
    IF i > Len(lines)
    THEN structureFlush(processedLines, currentParagraph)
    ELSE LET line == Trim(lines[i])
             kind == structureKind(line, currentParagraph)
         IN  structureLoop(lines, i + 1,
                 structureProcessed(kind, processedLines, currentParagraph),
                 structureParagraph(kind, line, currentParagraph))

restoreTextStructure(text) ==
    Join(structureLoop(Split(text, "\n"), 1, <<>>, <<>>), <<"\n">>)

-----------------------------------------------------------------------------
(* natural.LevenshteinDistance(a, b) with its default costs (1, 1, 1):     *)
(* the classic row-by-row dynamic programme.                               *)

Min2(a, b) == IF a <= b THEN a ELSE b

Max2(a, b) == IF a >= b THEN a ELSE b

\* The next row of the table, for character c of the source word: row[j+1]
\* is the distance to the first j characters of target.
RECURSIVE levRow(_, _, _, _)
levRow(prev, c, target, acc) ==
    IF Len(acc) = Len(prev) THEN acc
    ELSE LET j == Len(acc)
             cost == IF target[j] = c THEN 0 ELSE 1
         IN  levRow(prev, c, target,
                 Append(acc, Min2(Min2(prev[j + 1] + 1, acc[j] + 1), prev[j] + cost)))

RECURSIVE levRows(_, _, _, _)
levRows(source, i, target, prev) ==
    IF i > Len(source) THEN prev[Len(prev)]
    ELSE levRows(source, i + 1, target, levRow(prev, source[i], target, <<prev[1] + 1>>))

LevenshteinDistance(source, target) ==
    levRows(source, 1, target, [j \in 1..(Len(target) + 1) |-> j - 1])

-----------------------------------------------------------------------------
(* The dictionary oracle.  this.spellChecker is null, the nspell object or *)
(* the fallback object built in initializeSpellChecker's catch block.      *)

\* isValidWord's commonWords.
commonWords ==
    {
      <<"t","h","e">>, <<"b","e">>, <<"t","o">>, <<"o","f">>,
      <<"a","n","d">>, <<"a">>, <<"i","n">>, <<"t","h","a","t">>,
      <<"h","a","v","e">>, <<"i">>, <<"i","t">>, <<"f","o","r">>,
      <<"n","o","t">>, <<"o","n">>, <<"w","i","t","h">>, <<"h","e">>,
      <<"a","s">>, <<"y","o","u">>, <<"d","o">>, <<"a","t">>,
      <<"t","h","i","s">>, <<"b","u","t">>, <<"h","i","s">>, <<"b","y">>,
      <<"f","r","o","m">>, <<"t","h","e","y">>, <<"s","h","e">>, <<"o","r">>,
      <<"a","n">>, <<"w","i","l","l">>, <<"m","y">>, <<"o","n","e">>,
      <<"a","l","l">>, <<"w","o","u","l","d">>, <<"t","h","e","r","e">>, <<"t","h","e","i","r">>,
      <<"w","h","a","t">>, <<"s","o">>, <<"u","p">>, <<"o","u","t">>,
      <<"i","f">>, <<"a","b","o","u","t">>, <<"w","h","o">>, <<"g","e","t">>,
      <<"w","h","i","c","h">>, <<"g","o">>, <<"m","e">>, <<"w","h","e","n">>,
      <<"m","a","k","e">>, <<"c","a","n">>, <<"l","i","k","e">>, <<"t","i","m","e">>,
      <<"n","o">>, <<"j","u","s","t">>, <<"h","i","m">>, <<"k","n","o","w">>,
      <<"t","a","k","e">>, <<"p","e","o","p","l","e">>, <<"i","n","t","o">>, <<"y","e","a","r">>,
      <<"y","o","u","r">>, <<"g","o","o","d">>, <<"s","o","m","e">>, <<"c","o","u","l","d">>,
      <<"t","h","e","m">>, <<"s","e","e">>, <<"o","t","h","e","r">>, <<"t","h","a","n">>,
      <<"t","h","e","n">>, <<"n","o","w">>, <<"l","o","o","k">>, <<"o","n","l","y">>,
      <<"c","o","m","e">>, <<"i","t","s">>, <<"o","v","e","r">>, <<"t","h","i","n","k">>,
      <<"a","l","s","o">>, <<"b","a","c","k">>, <<"a","f","t","e","r">>, <<"u","s","e">>,
      <<"t","w","o">>, <<"h","o","w">>, <<"o","u","r">>, <<"w","o","r","k">>,
      <<"f","i","r","s","t">>, <<"w","e","l","l">>, <<"w","a","y">>, <<"e","v","e","n">>,
      <<"n","e","w">>, <<"w","a","n","t">>, <<"b","e","c","a","u","s","e">>, <<"a","n","y">>,
      <<"t","h","e","s","e">>, <<"g","i","v","e">>, <<"d","a","y">>, <<"m","o","s","t">>,
      <<"u","s">>
    }

isValidWord(word, customDictionary) ==
    IF toLowerCase(word) \in customDictionary THEN TRUE
    ELSE toLowerCase(word) \in commonWords

\* getSuggestions's commonWords, in order.
suggestionWords ==
    <<
      <<"t","h","e">>, <<"a","n","d">>, <<"t","h","a","t">>, <<"h","a","v","e">>,
      <<"f","o","r">>, <<"n","o","t">>, <<"w","i","t","h">>, <<"y","o","u">>,
      <<"t","h","i","s">>, <<"b","u","t">>
    >>

RECURSIVE selectSuggestions(_, _, _)
selectSuggestions(word, candidates, maxDistance) ==
    IF Len(candidates) = 0 THEN <<>>
    ELSE (IF LevenshteinDistance(toLowerCase(word), candidates[1]) <= maxDistance
          THEN <<candidates[1]>> ELSE <<>>)
             \o selectSuggestions(word, Tail(candidates), maxDistance)

getSuggestions(word) ==
    LET suggestions == selectSuggestions(word, suggestionWords, 2)
    IN  SubSeq(suggestions, 1, Min2(5, Len(suggestions)))

\* The word list behind the nspell object (dictionary-en): the part of the
\* English dictionary the sample documents touch, in dictionary order.
nspellWords ==
    <<
      <<"a">>, <<"h","e","l","l","o">>, <<"i","s">>, <<"t","e","s","t">>,
      <<"t","h","e">>, <<"t","h","i","s">>, <<"w","o","r","l","d">>, <<"t","e","x","t">>,
      <<"m","o","r","e">>, <<"n","e","x","t">>
    >>

\* nspell's correct(word): TRUE when the word IS spelled correctly (the word
\* itself, or its lower-case form, is in the dictionary).
nspellCorrect(word) ==
    \E i \in 1..Len(nspellWords) : nspellWords[i] \in {word, toLowerCase(word)}

\* nspell's suggest(word): nothing for a correctly spelled word, otherwise
\* the dictionary words within edit distance 2.
nspellSuggest(word) ==
    IF nspellCorrect(word) THEN <<>> ELSE selectSuggestions(word, nspellWords, 2)

\* A variant in which every word counts as misspelled.
checkerCorrect_Always(checker, word, customDictionary) == TRUE

\* this.spellChecker.correct(cleanWord)
checkerCorrect(checker, word, customDictionary) ==
    IF checker = "nspell" THEN nspellCorrect(word)
    ELSE ~isValidWord(word, customDictionary)

\* this.spellChecker.suggest(cleanWord)
checkerSuggest(checker, word) ==
    IF checker = "nspell" THEN nspellSuggest(word) ELSE getSuggestions(word)

-----------------------------------------------------------------------------
(* TextCorrector.performSpellCheck and chooseBestSuggestion.               *)

\* text.split(/\s+/)
RECURSIVE splitWhitespace(_, _)
splitWhitespace(s, i) ==
    LET p == SkipUntil(s, i, WS)      \* the next run of white space
    IN  IF p > Len(s) THEN <<SubSeq(s, i, Len(s))>>
        ELSE <<SubSeq(s, i, p - 1)>> \o splitWhitespace(s, SkipWhile(s, p, WS))

\* word.replace(/[^\w]/g, '')
cleanWordOf(word) == SelectSeq(word, LAMBDA c : c \in WordChar)

\* Math.floor(originalWord.length * 0.3)
floorThreeTenths(n) == (n * 3) \div 10

\* NoSuggestion stands for null.
NoSuggestion == <<"null">>

\* A variant that accepts at distance 1 only, whatever the length.
chooseBestSuggestion_DistanceOne(originalWord, suggestions, aggressiveMode) ==
    IF Len(suggestions) = 0 THEN NoSuggestion
    ELSE IF ~aggressiveMode
         THEN IF LevenshteinDistance(toLowerCase(originalWord),
                                     toLowerCase(suggestions[1])) <= 1
              THEN suggestions[1]
              ELSE NoSuggestion
         ELSE suggestions[1]

chooseBestSuggestion(originalWord, suggestions, aggressiveMode) ==
    IF Len(suggestions) = 0 THEN NoSuggestion
    ELSE IF ~aggressiveMode
         THEN LET bestSuggestion == suggestions[1]
                  distance == LevenshteinDistance(toLowerCase(originalWord),
                                                  toLowerCase(bestSuggestion))
              IN  IF distance <= Max2(1, floorThreeTenths(Len(originalWord)))
                  THEN bestSuggestion
                  ELSE NoSuggestion
         ELSE suggestions[1]

\* word.replace(cleanWord, replacement): the first occurrence of the string.
replaceFirst(word, pat, rep) ==
    IF ~Includes(word, pat) THEN word
    ELSE LET k == CHOOSE i \in 1..(Len(word) + 1) :
                      /\ MatchAt(word, i, pat)
                      /\ \A j \in 1..(i - 1) : ~MatchAt(word, j, pat)
         IN  SubSeq(word, 1, k - 1) \o rep \o SubSeq(word, k + Len(pat), Len(word))

\* The body of the for loop of performSpellCheck for one word.
spellCheckWord(word, checker, customDictionary, aggressiveMode) ==
    LET cleanWord == cleanWordOf(word)
    IN  IF Len(cleanWord) < 2 THEN word
        ELSE IF toLowerCase(cleanWord) \in customDictionary THEN word
        ELSE LET isMisspelled == checkerCorrect(checker, cleanWord, customDictionary)
                 suggestions == checkerSuggest(checker, cleanWord)
                 bestSuggestion ==
                     chooseBestSuggestion(cleanWord, suggestions, aggressiveMode)
             IN  IF isMisspelled /\ Len(suggestions) > 0 /\ bestSuggestion # NoSuggestion
                 THEN replaceFirst(word, cleanWord, bestSuggestion)
                 ELSE word

performSpellCheck(text, checker, customDictionary, aggressiveMode) ==
    IF checker = "null" THEN text
    ELSE LET words == splitWhitespace(text, 1)
         IN  JoinSpace([k \in 1..Len(words) |->
                 spellCheckWord(words[k], checker, customDictionary, aggressiveMode)])

-----------------------------------------------------------------------------
(* TextCorrector.improveTextFlow (FlowNormalizer).  compromise(text).text() *)
(* is an external call; it is modelled by nlpText.                          *)

\* compromise(text).text(): the external NLP pass, which hands the text back.
nlpText(s) == s

\* improved.replace(/\s{2,}/g, ' ')
RECURSIVE flowDoubleSpaces(_, _)
flowDoubleSpaces(s, i) ==
    LET starts == {p \in i..Len(s) : s[p] \in WS /\ SkipWhile(s, p, WS) - p >= 2}
    IN  IF starts = {} THEN SubSeq(s, i, Len(s))
        ELSE LET p == MinOf(starts)
             IN  SubSeq(s, i, p - 1) \o <<" ">> \o flowDoubleSpaces(s, SkipWhile(s, p, WS))

\* improved.replace(/\s+([,.;:!?])/g, '$1')
RECURSIVE flowSpaceBeforePunct(_, _)
flowSpaceBeforePunct(s, i) ==
    LET after(p) == SkipWhile(s, p, WS)
        starts == {p \in i..Len(s) :
                      after(p) > p /\ after(p) <= Len(s) /\ s[after(p)] \in FlowPunct}
    IN  IF starts = {} THEN SubSeq(s, i, Len(s))
        ELSE LET p == MinOf(starts)
             IN  SubSeq(s, i, p - 1) \o <<s[after(p)]>>
                     \o flowSpaceBeforePunct(s, after(p) + 1)

\* improved.replace(/([.!?])\s*([a-z])/g, '$1 $2')
RECURSIVE flowSpaceAfterSentence(_, _)
flowSpaceAfterSentence(s, i) ==
    LET after(p) == SkipWhile(s, p + 1, WS)
        starts == {p \in i..Len(s) :
                      s[p] \in SentenceEnd /\ after(p) <= Len(s) /\ s[after(p)] \in Lower}
    IN  IF starts = {} THEN SubSeq(s, i, Len(s))
        ELSE LET p == MinOf(starts)
             IN  SubSeq(s, i, p - 1) \o <<s[p], " ", s[after(p)]>>
                     \o flowSpaceAfterSentence(s, after(p) + 1)

\* improved.replace(/([.!?]\s+)([a-z])/g, (m, punct, letter) =>
\*     punct + letter.toUpperCase())
RECURSIVE flowCapitalize(_, _)
flowCapitalize(s, i) ==
    LET after(p) == SkipWhile(s, p + 1, WS)
        starts == {p \in i..Len(s) :
                      /\ s[p] \in SentenceEnd
                      /\ after(p) > p + 1
                      /\ after(p) <= Len(s)
                      /\ s[after(p)] \in Lower}
    IN  IF starts = {} THEN SubSeq(s, i, Len(s))
        ELSE LET p == MinOf(starts)
             IN  SubSeq(s, i, after(p) - 1) \o <<toUpperCaseChar(s[after(p)])>>
                     \o flowCapitalize(s, after(p) + 1)

\* The capital letters set before the space after a sentence end is put in.
improveTextFlow_CapFirst(text) ==
    LET improved0 == nlpText(text)
        improved1 == flowDoubleSpaces(improved0, 1)
        improved2 == flowSpaceBeforePunct(improved1, 1)
        improved3 == flowCapitalize(improved2, 1)
    IN  flowSpaceAfterSentence(improved3, 1)

improveTextFlow(text) ==
    LET improved0 == nlpText(text)
        improved1 == flowDoubleSpaces(improved0, 1)
        improved2 == flowSpaceBeforePunct(improved1, 1)
        improved3 == flowSpaceAfterSentence(improved2, 1)
    IN  flowCapitalize(improved3, 1)

-----------------------------------------------------------------------------
(* TextCorrector.finalCleanup and the text extraction at the head of       *)
(* processText.                                                            *)

\* cleaned.replace(/\n{3,}/g, '\n\n')
RECURSIVE collapseNewlines(_, _, _, _)
collapseNewlines(s, i, atLeast, rep) ==
    LET starts == {p \in i..Len(s) :
                      s[p] = "\n" /\ SkipWhile(s, p, {"\n"}) - p >= atLeast}
    IN  IF starts = {} THEN SubSeq(s, i, Len(s))
        ELSE LET p == MinOf(starts)
             IN  SubSeq(s, i, p - 1) \o rep
                     \o collapseNewlines(s, SkipWhile(s, p, {"\n"}), atLeast, rep)

finalCleanup(text) ==
    LET cleaned1 == collapseNewlines(text, 1, 3, <<"\n","\n">>)
        lines    == Split(cleaned1, "\n")
        cleaned2 == Join([k \in 1..Len(lines) |-> Trim(lines[k])], <<"\n">>)
    IN  Trim(cleaned2)

\* The text processText returns when it finds none (line 645).
NoTextFallback ==
    <<"N","o"," ","t","e","x","t"," ","c","o","u","l","d"," ","b","e"," ","e","x","t","r","a","c","t","e","d"," ","f","r","o","m"," ","t","h","i","s"," ","P","D","F","."," ","T","h","i","s"," ","m","a","y"," ","b","e"," ","d","u","e"," ","t","o",":","\n","-"," ","U","n","s","u","p","p","o","r","t","e","d"," ","P","D","F"," ","f","o","r","m","a","t","\n","-"," ","I","m","a","g","e","-","b","a","s","e","d"," ","P","D","F"," ","r","e","q","u","i","r","i","n","g"," ","b","e","t","t","e","r"," ","O","C","R","\n","-"," ","P","r","o","c","e","s","s","i","n","g"," ","e","r","r","o","r","\n","\n","P","l","e","a","s","e"," ","t","r","y"," ","w","i","t","h"," ","a"," ","d","i","f","f","e","r","e","n","t"," ","P","D","F"," ","o","r"," ","c","h","e","c","k"," ","t","h","e"," ","c","o","n","s","o","l","e"," ","f","o","r"," ","d","e","t","a","i","l","e","d"," ","e","r","r","o","r"," ","m","e","s","s","a","g","e","s",".">>

\* pages.map(page => page.text || '').filter(pageText => pageText.trim())
RECURSIVE nonBlankPageTexts(_)
nonBlankPageTexts(pages) ==
    IF Len(pages) = 0 THEN <<>>
    ELSE (IF Len(Trim(pages[1].text)) > 0 THEN <<pages[1].text>> ELSE <<>>)
             \o nonBlankPageTexts(Tail(pages))

\* Lines 622-638.  The argument is null, a string or the object
\* combinePageResults builds: [type |-> "null" / "string" / "object",
\* str |-> s, fullText |-> s, pages |-> <<[page, text, confidence], ..>>].
extractText(ocr) ==
    IF ocr.type = "string" THEN ocr.str
    ELSE IF ocr.type = "object" /\ Len(ocr.fullText) > 0
         THEN ocr.fullText
    ELSE IF ocr.type = "object"
         THEN Join(nonBlankPageTexts(ocr.pages), <<"\n","\n">>)
    ELSE <<>>

-----------------------------------------------------------------------------
(* MarkdownGenerator: heading, list, table and code detection.             *)

\* The characters . matches (no line terminator).
IsDotChar(c) == c \notin {"\n", "\r"}

\* \s+(.+)$ tried at index i of s: the index where group (.+) starts, or 0
\* when it does not match.  \s+ is greedy and gives characters back only
\* when nothing is left for (.+).
wsThenRest(s, i) ==
    LET r == SkipWhile(s, i, WS)
    IN  IF r = i THEN 0
        ELSE IF r <= Len(s)
             THEN (IF \A k \in r..Len(s) : IsDotChar(s[k]) THEN r ELSE 0)
        ELSE IF r - i >= 2 /\ IsDotChar(s[Len(s)]) THEN Len(s)
        ELSE 0

RestFrom(s, i) == SubSeq(s, i, Len(s))

headingKeywords ==
    <<
      <<"C","H","A","P","T","E","R">>,
      <<"S","E","C","T","I","O","N">>,
      <<"P","A","R","T">>,
      <<"A","P","P","E","N","D","I","X">>
    >>

\* The index after the keyword of pattern 5 at the start of line, or 0.
keywordEnd(line) ==
    IF \E k \in 1..Len(headingKeywords) :
           MatchAt(toUpperCase(line), 1, headingKeywords[k])
    THEN 1 + Len(headingKeywords[CHOOSE k \in 1..Len(headingKeywords) :
                     /\ MatchAt(toUpperCase(line), 1, headingKeywords[k])
                     /\ \A m \in 1..(k - 1) :
                            ~MatchAt(toUpperCase(line), 1, headingKeywords[m])])
    ELSE 0

\* line.match(this.headingPatterns[p]) for p = 0..5: the match as
\* [g1 |-> match[1], g2 |-> match[2]] in a one-element sequence, or <<>> for
\* null.  A group the pattern does not have is <<"undefined">>.
Undefined == <<"undefined">>

matchHeadingPattern(line, p) ==
    CASE p = 0 ->  \* /^[IVX]+[\.\)]\s+(.+)$/i
            LET a == SkipWhile(line, 1, {"I","V","X","i","v","x"})
                r == wsThenRest(line, a + 1)
            IN  IF a > 1 /\ a <= Len(line) /\ line[a] \in {".", ")"} /\ r > 0
                THEN <<[g1 |-> RestFrom(line, r), g2 |-> Undefined]>>
                ELSE <<>>
      [] p = 1 ->  \* /^(\d+)[\.\)]\s+(.+)$/
            LET a == SkipWhile(line, 1, Digit)
                r == wsThenRest(line, a + 1)
            IN  IF a > 1 /\ a <= Len(line) /\ line[a] \in {".", ")"} /\ r > 0
                THEN <<[g1 |-> SubSeq(line, 1, a - 1), g2 |-> RestFrom(line, r)]>>
                ELSE <<>>
      [] p = 2 ->  \* /^([A-Z])[\.\)]\s+(.+)$/
            LET r == wsThenRest(line, 3)
            IN  IF Len(line) >= 2 /\ line[1] \in Upper /\ line[2] \in {".", ")"} /\ r > 0
                THEN <<[g1 |-> <<line[1]>>, g2 |-> RestFrom(line, r)]>>
                ELSE <<>>
      [] p = 3 ->  \* /^([A-Z][A-Z\s]{2,50})$/
            IF /\ Len(line) >= 3
               /\ Len(line) <= 51
               /\ line[1] \in Upper
               /\ \A k \in 2..Len(line) : line[k] \in Upper \cup WS
            THEN <<[g1 |-> line, g2 |-> Undefined]>>
            ELSE <<>>
      [] p = 4 ->  \* /^(\d+\.\d+)\s+(.+)$/
            LET a == SkipWhile(line, 1, Digit)
                b == SkipWhile(line, a + 1, Digit)
                r == wsThenRest(line, b)
            IN  IF a > 1 /\ a <= Len(line) /\ line[a] = "." /\ b > a + 1 /\ r > 0
                THEN <<[g1 |-> SubSeq(line, 1, b - 1), g2 |-> RestFrom(line, r)]>>
                ELSE <<>>
      [] p = 5 ->  \* /^(CHAPTER|SECTION|PART|APPENDIX)\s+(.+)$/i
            LET a == keywordEnd(line)
                r == wsThenRest(line, a)
            IN  IF a > 0 /\ r > 0
                THEN <<[g1 |-> SubSeq(line, 1, a - 1), g2 |-> RestFrom(line, r)]>>
                ELSE <<>>

\* determineHeadingLevel(match, patternIndex).  Case 3 reads the identifier
\* line, which is neither a parameter nor declared anywhere in the module:
\* evaluating it throws a ReferenceError.  0 stands for that throw.
determineHeadingLevel(match, patternIndex) ==
    CASE patternIndex = 0 -> 1
      [] patternIndex = 1 -> (IF NumValue(match.g1) <= 3 THEN 2 ELSE 3)
      [] patternIndex = 2 -> 3
      [] patternIndex = 3 -> 0
      [] patternIndex = 4 -> 2
      [] patternIndex = 5 -> 1

\* str.toLowerCase().replace(/\b\w/g, l => l.toUpperCase())
toTitleCase(str) ==
    LET low == toLowerCase(str)
    IN  [i \in 1..Len(low) |->
            IF low[i] \in WordChar /\ (i = 1 \/ low[i - 1] \notin WordChar)
            THEN toUpperCaseChar(low[i]) ELSE low[i]]

extractHeadingText(match, patternIndex) ==
    CASE patternIndex \in {0, 1, 2} ->
            (IF match.g2 # Undefined /\ Len(match.g2) > 0 THEN match.g2 ELSE match.g1)
      [] patternIndex = 3 -> toTitleCase(match.g1)
      [] patternIndex \in {4, 5} -> match.g2

\* '#'.repeat(n) and '  '.repeat(n)
Repeat(unit, n) == [i \in 1..(n * Len(unit)) |-> unit[((i - 1) % Len(unit)) + 1]]

\* detectHeading(line): [kind |-> "none"] for null, [kind |-> "throw"] when
\* determineHeadingLevel throws, else the heading.
NoHeading == [kind |-> "none", level |-> 0, text |-> <<>>, markdown |-> <<>>]

ThrownHeading == [kind |-> "throw", level |-> 0, text |-> <<>>, markdown |-> <<>>]

\* A loop that goes through the whole table and keeps the last match.
detectHeading_LastPatternWins(line) ==
    LET heading(level, text) ==
            IF level = 0 THEN ThrownHeading
            ELSE [kind |-> "heading", level |-> level, text |-> text,
                  markdown |-> Repeat(<<"#">>, level) \o <<" ">> \o text]
        matched(match, i) ==
            heading(determineHeadingLevel(match, i), extractHeadingText(match, i))
        matching == {i \in 0..5 : Len(matchHeadingPattern(line, i)) > 0}
        last(i) == matched(matchHeadingPattern(line, i)[1], i)
    IN  IF matching = {} THEN NoHeading
        ELSE last(MaxOf(matching))

\* The loop of lines 169-183 returns at the first pattern that matches.
detectHeading(line) ==
    LET heading(level, text) ==
            IF level = 0 THEN ThrownHeading
            ELSE [kind |-> "heading", level |-> level, text |-> text,
                  markdown |-> Repeat(<<"#">>, level) \o <<" ">> \o text]
        matched(match, i) ==
            heading(determineHeadingLevel(match, i), extractHeadingText(match, i))
        matching == {i \in 0..5 : Len(matchHeadingPattern(line, i)) > 0}
        first(i) == matched(matchHeadingPattern(line, i)[1], i)
    IN  IF matching = {} THEN NoHeading   \* detectUnderlinedHeading returns null
        ELSE first(MinOf(matching))

\* detectListItem(line): <<markdown, level>> in a one-element sequence, or
\* <<>> for null.
detectListItem(line) ==
    LET a  == SkipWhile(line, 1, WS)          \* after (\s*)
        level == ((a - 1) \div 2) + 1
        indent == Repeat(<<" ", " ">>, Max2(0, level - 1))
        \* /^(\s*)([•‣◦⁃∙\-\*])\s+(.+)$/
        rb == wsThenRest(line, a + 1)
        \* /^(\s*)(\d+)[\.\)]\s+(.+)$/
        d  == SkipWhile(line, a, Digit)
        rn == wsThenRest(line, d + 1)
    IN  IF a <= Len(line) /\ line[a] \in BulletChars /\ rb > 0
        THEN <<[markdown |-> indent \o <<"-", " ">> \o RestFrom(line, rb),
                level |-> level]>>
        ELSE IF d > a /\ d <= Len(line) /\ line[d] \in {".", ")"} /\ rn > 0
        THEN <<[markdown |-> indent \o SubSeq(line, a, d - 1) \o <<".", " ">>
                                \o RestFrom(line, rn),
                level |-> level]>>
        ELSE <<>>

\* line.match(/\w+\s{2,}\w+/) || line.includes('\t')
looksLikeTableRow(line) ==
    \/ \E i \in 1..Len(line) :
           /\ line[i] \in WordChar
           /\ LET j == SkipWhile(line, i + 1, WS)
              IN  j - (i + 1) >= 2 /\ j <= Len(line) /\ line[j] \in WordChar
    \/ \E i \in 1..Len(line) : line[i] = "\t"

\* line.split(/\s{2,}|\t+/)
RECURSIVE splitCells(_, _)
splitCells(s, i) ==
    LET sepEnd(p) == IF SkipWhile(s, p, WS) - p >= 2 THEN SkipWhile(s, p, WS)
                     ELSE IF s[p] = "\t" THEN SkipWhile(s, p, {"\t"})
                     ELSE 0
        starts == {p \in i..Len(s) : sepEnd(p) > 0}
    IN  IF starts = {} THEN <<SubSeq(s, i, Len(s))>>
        ELSE LET p == MinOf(starts)
             IN  <<SubSeq(s, i, p - 1)>> \o splitCells(s, sepEnd(p))

tableRow(line) ==
    LET cells == splitCells(line, 1)
    IN  <<"|", " ">> \o Join([k \in 1..Len(cells) |-> Trim(cells[k])], <<" ", "|", " ">>)
            \o <<" ", "|">>

\* The index after the run of table rows that starts at lines[i].
RECURSIVE tableEnd(_, _)
tableEnd(lines, i) ==
    IF i <= Len(lines) /\ looksLikeTableRow(Trim(lines[i]))
    THEN tableEnd(lines, i + 1) ELSE i

CountChar(s, c) == Cardinality({i \in 1..Len(s) : s[i] = c})

\* processTable(lines, startIndex): [markdown, endIndex], markdown <<"null">>
\* for null.  Indices are 1-based: endIndex is the last line of the table.
NullMarkdown == <<"null">>

processTable(lines, startIndex) ==
    LET i == tableEnd(lines, startIndex)
        rows == [k \in 1..(i - startIndex) |-> tableRow(Trim(lines[startIndex + k - 1]))]
        \* ' --- |'.repeat(rows[0].split('|').length - 2)
        headerSeparator ==
            <<"|">> \o Repeat(<<" ", "-", "-", "-", " ", "|">>,
                              Max2(0, CountChar(rows[1], "|") - 1))
        withHeader == <<rows[1], headerSeparator>> \o SubSeq(rows, 2, Len(rows))
    IN  IF i - startIndex < 2
        THEN [markdown |-> NullMarkdown, endIndex |-> startIndex]
        ELSE [markdown |-> <<"\n">> \o Join(withHeader, <<"\n">>) \o <<"\n">>,
              endIndex |-> i - 1]

codeKeywords ==
    <<
      <<"f","u","n","c","t","i","o","n">>,
      <<"v","a","r">>,
      <<"l","e","t">>,
      <<"c","o","n","s","t">>,
      <<"i","f">>,
      <<"e","l","s","e">>,
      <<"f","o","r">>,
      <<"w","h","i","l","e">>,
      <<"r","e","t","u","r","n">>,
      <<"i","m","p","o","r","t">>,
      <<"e","x","p","o","r","t">>,
      <<"c","l","a","s","s">>,
      <<"d","e","f">>,
      <<"p","u","b","l","i","c">>,
      <<"p","r","i","v","a","t","e">>
    >>

CodeSymbols == {"{", "}", "(", ")", ";", "=", "<", ">"}

looksLikeCode(line) ==
    IF Len(line) = 0 THEN FALSE
    ELSE IF \E k \in 1..Len(codeKeywords) : Includes(line, codeKeywords[k]) THEN TRUE
    ELSE IF \E i \in 1..Len(line) : line[i] \in CodeSymbols THEN TRUE
    \* line.match(/^\s{4,}/) && line.match(/\w/)
    ELSE IF SkipWhile(line, 1, WS) >= 5 /\ \E i \in 1..Len(line) : line[i] \in WordChar
         THEN TRUE
    ELSE FALSE

-----------------------------------------------------------------------------
(* MarkdownGenerator.processInlineFormatting.                              *)

\* processed.replace(/\b([A-Z]{2,})\b(?!\s*[.!?])/g, '**$1**')
\* The index after /\b([A-Z]{2,})\b(?!\s*[.!?])/ matched at i, or 0.
boldEnd(s, i) ==
    LET k == SkipWhile(s, i, Upper)
        m == SkipWhile(s, k, WS)
    IN  IF /\ WordBoundary(s, i)
           /\ k - i >= 2
           /\ WordBoundary(s, k)
           /\ ~(m <= Len(s) /\ s[m] \in SentenceEnd)
        THEN k ELSE 0

RECURSIVE inlineBold(_, _)
inlineBold(s, i) ==
    LET starts == {p \in i..Len(s) : s[p] \in Upper /\ boldEnd(s, p) > 0}
    IN  IF starts = {} THEN SubSeq(s, i, Len(s))
        ELSE LET p == MinOf(starts)
                 k == boldEnd(s, p)
             IN  SubSeq(s, i, p - 1) \o <<"*","*">> \o SubSeq(s, p, k - 1)
                     \o <<"*","*">> \o inlineBold(s, k)

\* The index after /https?:\/\/[^\s]+/ matched at i, or 0.
urlEnd(s, i) ==
    LET p == IF MatchAt(s, i, <<"h","t","t","p","s",":","/","/">>) THEN i + 8
             ELSE IF MatchAt(s, i, <<"h","t","t","p",":","/","/">>) THEN i + 7
             ELSE 0
        e == SkipUntil(s, p, WS)
    IN  IF p > 0 /\ e > p THEN e ELSE 0

\* processed.replace(/(https?:\/\/[^\s]+)/g, '[$1]($1)')
RECURSIVE inlineUrls(_, _)
inlineUrls(s, i) ==
    LET starts == {p \in i..Len(s) : s[p] = "h" /\ urlEnd(s, p) > 0}
    IN  IF starts = {} THEN SubSeq(s, i, Len(s))
        ELSE LET p == MinOf(starts)
                 e == urlEnd(s, p)
             IN  SubSeq(s, i, p - 1) \o <<"[">> \o SubSeq(s, p, e - 1) \o <<"]", "(">>
                     \o SubSeq(s, p, e - 1) \o <<")">> \o inlineUrls(s, e)

Letter == Upper \cup Lower

\* [a-zA-Z0-9._%+-]
EmailLocalChars == Letter \cup Digit \cup {".", "_", "%", "+", "-"}

\* [a-zA-Z0-9.-]
EmailDomainChars == Letter \cup Digit \cup {".", "-"}

\* The index after
\* /\b([a-zA-Z0-9._%+-]+@[a-zA-Z0-9.-]+\.[a-zA-Z]{2,})\b/ matched at i, or 0.
\* The domain is greedy: it ends at the last dot that a run of two or more
\* letters and a word boundary follow.
emailEnd(s, i) ==
    LET a    == SkipWhile(s, i, EmailLocalChars)     \* the @
        dEnd == SkipWhile(s, a + 1, EmailDomainChars)
        dots == {p \in (a + 2)..(dEnd - 1) :
                    /\ s[p] = "."
                    /\ LET t == SkipWhile(s, p + 1, Letter)
                       IN  t - (p + 1) >= 2 /\ WordBoundary(s, t)}
    IN  IF /\ WordBoundary(s, i)
           /\ a > i
           /\ a <= Len(s)
           /\ s[a] = "@"
           /\ dots # {}
        THEN SkipWhile(s, (CHOOSE p \in dots : \A q \in dots : q <= p) + 1, Letter)
        ELSE 0

\* processed.replace(/\b(<email>)\b/g, '[$1](mailto:$1)')
RECURSIVE inlineEmails(_, _)
inlineEmails(s, i) ==
    LET starts == {p \in i..Len(s) : s[p] \in EmailLocalChars /\ emailEnd(s, p) > 0}
    IN  IF starts = {} THEN SubSeq(s, i, Len(s))
        ELSE LET p == MinOf(starts)
                 e == emailEnd(s, p)
             IN  SubSeq(s, i, p - 1) \o <<"[">> \o SubSeq(s, p, e - 1)
                     \o <<"]", "(", "m","a","i","l","t","o",":">>
                     \o SubSeq(s, p, e - 1) \o <<")">> \o inlineEmails(s, e)

processInlineFormatting(line) ==
    inlineEmails(inlineUrls(inlineBold(line, 1), 1), 1)

-----------------------------------------------------------------------------
(* MarkdownGenerator.processContent: the loop over the lines, with         *)
(* processedLines and inCodeBlock.  The result is                          *)
(* [thrown |-> BOOLEAN, content |-> the joined lines].                     *)

\* The fence line of three grave accents (U+0060).
Fence == <<"U+0060","U+0060","U+0060">>

RECURSIVE contentLoop(_, _, _, _)
contentLoop(lines, i, processedLines, inCodeBlock) ==
    IF i > Len(lines)
    THEN [thrown |-> FALSE,
          content |-> Join(IF inCodeBlock THEN Append(processedLines, Fence)
                           ELSE processedLines, <<"\n">>)]
    ELSE
    LET iteration(trimmedLine, heading, listItem, table) ==
        IF Len(trimmedLine) = 0
        THEN contentLoop(lines, i + 1, Append(processedLines, <<>>), inCodeBlock)
        ELSE IF heading.kind = "throw"
        THEN [thrown |-> TRUE, content |-> <<>>]
        ELSE IF heading.kind = "heading"
        THEN contentLoop(lines, i + 1,
                 (IF Len(processedLines) > 0 /\ processedLines[Len(processedLines)] # <<>>
                  THEN Append(processedLines, <<>>) ELSE processedLines)
                     \o <<heading.markdown>>,
                 inCodeBlock)
        ELSE IF Len(listItem) > 0
        THEN contentLoop(lines, i + 1, Append(processedLines, listItem[1].markdown),
                         inCodeBlock)
        ELSE IF looksLikeTableRow(trimmedLine) /\ table.markdown # NullMarkdown
        THEN contentLoop(lines, table.endIndex + 1,
                         Append(processedLines, table.markdown), inCodeBlock)
        ELSE IF looksLikeCode(trimmedLine)
        THEN contentLoop(lines, i + 1,
                 (IF inCodeBlock THEN processedLines ELSE Append(processedLines, Fence))
                     \o <<trimmedLine>>,
                 TRUE)
        ELSE contentLoop(lines, i + 1,
                 (IF inCodeBlock THEN Append(processedLines, Fence) ELSE processedLines)
                     \o <<processInlineFormatting(trimmedLine)>>,
                 FALSE)
    IN  iteration(Trim(lines[i]), detectHeading(Trim(lines[i])),
                  detectListItem(Trim(lines[i])), processTable(lines, i))

processContent(text) == contentLoop(Split(text, "\n"), 1, <<>>, FALSE)

-----------------------------------------------------------------------------
(* MarkdownGenerator.generateTableOfContents and generateAnchor.           *)

\* s.replace(/X+/g, rep) for a character class X.
RECURSIVE collapseRuns(_, _, _, _)
collapseRuns(s, i, X, rep) ==
    LET p == SkipUntil(s, i, X)
    IN  IF p > Len(s) THEN SubSeq(s, i, Len(s))
        ELSE SubSeq(s, i, p - 1) \o rep \o collapseRuns(s, SkipWhile(s, p, X), X, rep)

generateAnchor(text) ==
    LET a1 == toLowerCase(text)
        \* .replace(/[^\w\s-]/g, '')
        a2 == SelectSeq(a1, LAMBDA c : c \in WordChar \cup WS \cup {"-"})
        \* .replace(/\s+/g, '-')
        a3 == collapseRuns(a2, 1, WS, <<"-">>)
        \* .replace(/-+/g, '-')
        a4 == collapseRuns(a3, 1, {"-"}, <<"-">>)
        \* .replace(/^-|-$/g, '')
        a5 == IF Len(a4) > 0 /\ a4[1] = "-" THEN Tail(a4) ELSE a4
    IN  IF Len(a5) > 0 /\ a5[Len(a5)] = "-" THEN SubSeq(a5, 1, Len(a5) - 1) ELSE a5

\* line.match(/^(#{1,6})\s+(.+)$/): [level, text] in a one-element sequence,
\* or <<>>.
matchMarkdownHeading(line) ==
    LET h == SkipWhile(line, 1, {"#"}) - 1
        r == wsThenRest(line, h + 1)
    IN  IF h >= 1 /\ h <= 6 /\ r > 0
        THEN <<[level |-> h, text |-> RestFrom(line, r)]>>
        ELSE <<>>

RECURSIVE tocLines(_)
tocLines(lines) ==
    IF Len(lines) = 0 THEN <<>>
    ELSE LET m == matchMarkdownHeading(lines[1])
         IN  (IF Len(m) = 0 THEN <<>>
              ELSE <<Repeat(<<" ", " ">>, Max2(0, m[1].level - 1))
                        \o <<"-", " ", "[">> \o m[1].text \o <<"]", "(", "#">>
                        \o generateAnchor(m[1].text) \o <<")">>>>)
                 \o tocLines(Tail(lines))

\* generateTableOfContents(content): <<"null">> for null.
NullToc == <<"null">>

generateTableOfContents(content) ==
    LET entries == tocLines(Split(content, "\n"))
    IN  IF Len(entries) = 0 THEN NullToc ELSE Join(entries, <<"\n">>)

-----------------------------------------------------------------------------
(* MarkdownGenerator.generateMetadata, finalCleanup and generate.          *)

\* new Date().toISOString() for the clock reading now: successive readings
\* of the millisecond clock differ in the milliseconds field.
toISOString(now) ==
    <<"2","0","2","6","-","0","1","-","0","1","T","0","0",":","0","0",":","0","0",".","0","0">> \o <<DigitSeq[(now % 10) + 1], "Z">>

generateMetadata(sourceURL, now) ==
    Join(<<<<"-","-","-">>,
           <<"t","i","t","l","e",":"," ","\"","P","D","F"," ","P","r","o","c","e","s","s","e","d"," ","D","o","c","u","m","e","n","t","\"">>,
           <<"s","o","u","r","c","e",":"," ","\"">> \o sourceURL \o <<"\"">>,
           <<"p","r","o","c","e","s","s","e","d","_","d","a","t","e",":"," ","\"">> \o toISOString(now) \o <<"\"">>,
           <<"g","e","n","e","r","a","t","o","r",":"," ","\"","P","D","F"," ","P","r","o","c","e","s","s","o","r"," ","v","1",".","0",".","0","\"">>,
           <<"-","-","-">>,
           <<>>>>, <<"\n">>) \o <<"\n">>

\* cleaned.replace(/\n(#{1,6}\s+)/g, '\n\n$1')
RECURSIVE spaceBeforeHeadings(_, _)
spaceBeforeHeadings(s, i) ==
    LET hashes(p) == SkipWhile(s, p + 1, {"#"})      \* after the run of #
        spaces(p) == SkipWhile(s, hashes(p), WS)     \* after \s+
        starts == {p \in i..Len(s) :
                      /\ s[p] = "\n"
                      /\ hashes(p) > p + 1
                      /\ hashes(p) - (p + 1) <= 6
                      /\ spaces(p) > hashes(p)}
    IN  IF starts = {} THEN SubSeq(s, i, Len(s))
        ELSE LET p == MinOf(starts)
             IN  SubSeq(s, i, p - 1) \o <<"\n", "\n">> \o SubSeq(s, p + 1, spaces(p) - 1)
                     \o spaceBeforeHeadings(s, spaces(p))

\* /(#{1,6}\s+.+)\n(?!\n)/ tried at index i: the index of the \n that ends
\* the match, or 0.  \s+ is greedy and gives characters back until .+ can
\* run to a \n that no \n follows.
headingLineEnd(s, i) ==
    LET h == SkipWhile(s, i, {"#"})
        r == SkipWhile(s, h, WS)
        starts == {q \in (h + 1)..r :
                      /\ q <= Len(s)
                      /\ IsDotChar(s[q])
                      /\ LET e == SkipUntil(s, q, {"\n", "\r"})
                         IN  /\ e <= Len(s)
                             /\ s[e] = "\n"
                             /\ ~(e + 1 <= Len(s) /\ s[e + 1] = "\n")}
    IN  IF h > i /\ h - i <= 6 /\ starts # {}
        THEN SkipUntil(s, CHOOSE q \in starts : \A p \in starts : p <= q, {"\n", "\r"})
        ELSE 0

\* cleaned.replace(/(#{1,6}\s+.+)\n(?!\n)/g, '$1\n\n')
RECURSIVE spaceAfterHeadings(_, _)
spaceAfterHeadings(s, i) ==
    LET starts == {p \in i..Len(s) : s[p] = "#" /\ headingLineEnd(s, p) > 0}
    IN  IF starts = {} THEN SubSeq(s, i, Len(s))
        ELSE LET p == MinOf(starts)
                 e == headingLineEnd(s, p)
             IN  SubSeq(s, i, e - 1) \o <<"\n", "\n">> \o spaceAfterHeadings(s, e + 1)

markdownFinalCleanup(markdown) ==
    LET c1 == collapseNewlines(markdown, 1, 4, <<"\n","\n","\n">>)
        c2 == spaceBeforeHeadings(c1, 1)
        c3 == spaceAfterHeadings(c2, 1)
        \* cleaned.replace(/\n([\-\*]\s+)/g, '\n$1') puts back what it matched
        lines == Split(c3, "\n")
        c5 == Join([k \in 1..Len(lines) |-> TrimEnd(lines[k])], <<"\n">>)
    IN  TrimEnd(c5) \o <<"\n">>

\* The text generate renders when it is given none (line 38).
NoContentFallback ==
    <<"N","o"," ","c","o","n","t","e","n","t"," ","c","o","u","l","d"," ","b","e"," ","p","r","o","c","e","s","s","e","d"," ","f","r","o","m"," ","t","h","e"," ","P","D","F","."," ","P","l","e","a","s","e"," ","c","h","e","c","k"," ","t","h","e"," ","p","r","o","c","e","s","s","i","n","g"," ","l","o","g","s"," ","f","o","r"," ","e","r","r","o","r","s",".">>

\* generate(text, options) at clock reading now.  text is a JavaScript value
\* [isString |-> BOOLEAN, str |-> s]; options is [sourceURL, metadata,
\* includeTableOfContents].  The result is [thrown, markdown].
generate(text, options, now) ==
    LET tocBlock(toc) ==
            IF options.includeTableOfContents /\ toc # NullToc
            THEN <<"\n","#","#"," ","T","a","b","l","e"," ","o","f"," ","C","o","n","t","e","n","t","s","\n","\n">> \o toc \o <<"\n","\n">>
            ELSE <<>>
        render(header, processed) ==
            IF processed.thrown THEN [thrown |-> TRUE, markdown |-> <<>>]
            ELSE [thrown |-> FALSE,
                  markdown |-> markdownFinalCleanup(
                      header \o tocBlock(generateTableOfContents(processed.content))
                             \o processed.content)]
    IN  render(IF options.metadata THEN generateMetadata(options.sourceURL, now)
               ELSE <<>>,
               processContent(IF ~text.isString \/ Len(text.str) = 0
                              THEN NoContentFallback ELSE text.str))

-----------------------------------------------------------------------------
(* OCRWorker.combinePageResults: the value processImages returns, which    *)
(* processURL hands to processText.                                        *)

\* fullTextParts: the trimmed text of each page that has any, with '\n\n'
\* pushed between two of them.
RECURSIVE fullTextParts(_)
fullTextParts(pageResults) ==
    IF Len(pageResults) = 0 THEN <<>>
    ELSE LET rest == fullTextParts(Tail(pageResults))
             text == Trim(pageResults[1].text)
         IN  IF Len(text) = 0 THEN rest
             ELSE IF Len(rest) = 0 THEN <<text>>
             ELSE <<text, <<"\n", "\n">>>> \o rest

\* A page whose text is counted: if (page.text && page.text.trim()), line
\* 1187.
hasPageText(page) == Len(page.text) > 0 /\ Len(Trim(page.text)) > 0

\* metadata.lowConfidencePages, lines 1198-1203: the push is inside the
\* branch of line 1187, so only pages with text are looked at.
RECURSIVE lowConfidencePages(_)
lowConfidencePages(pageResults) ==
    IF Len(pageResults) = 0 THEN <<>>
    ELSE (IF hasPageText(pageResults[1]) /\ pageResults[1].confidence < 70
          THEN <<[page |-> pageResults[1].page,
                  confidence |-> pageResults[1].confidence]>>
          ELSE <<>>)
             \o lowConfidencePages(Tail(pageResults))

\* totalConfidence, line 1194: the sum over the pages with text.
RECURSIVE totalConfidence(_)
totalConfidence(pageResults) ==
    IF Len(pageResults) = 0 THEN 0
    ELSE (IF hasPageText(pageResults[1]) THEN pageResults[1].confidence ELSE 0)
             + totalConfidence(Tail(pageResults))

\* A combinePageResults that walks the page results from the last to the
\* first.
combinePageResults_LastPageFirst(pageResults) ==
    LET reversed == [k \in 1..Len(pageResults) |-> pageResults[Len(pageResults) + 1 - k]]
    IN  [type |-> "object",
         str |-> <<>>,
         fullText |-> Join(fullTextParts(reversed), <<>>),
         pages |-> reversed,
         pageCount |-> Len(reversed),
         totalConfidence |-> totalConfidence(reversed),
         lowConfidencePages |-> lowConfidencePages(reversed)]

\* The structuredText object, without its word count, its average and its
\* processingTime.
combinePageResults(pageResults) ==
    [type |-> "object",
     str |-> <<>>,
     fullText |-> Join(fullTextParts(pageResults), <<>>),
     pages |-> pageResults,
     pageCount |-> Len(pageResults),
     totalConfidence |-> totalConfidence(pageResults),
     lowConfidencePages |-> lowConfidencePages(pageResults)]


\* A page result of processImages.
PageResult(n, pageText, pageConfidence) ==
    [page |-> n, text |-> pageText, confidence |-> pageConfidence]

\* The page result of the catch block of processImages, lines 1057-1065.
pageErrorResult(page) ==
    [page |-> page.page,
     text |-> page.extractedText,
     confidence |-> IF Len(page.extractedText) > 0 THEN 100 ELSE 0,
     error |-> "message"]

\* if (page.isTextOnly && page.extractedText), line 1034.
usesExtractedText(page) == page.isTextOnly /\ Len(page.extractedText) > 0

\* The page result one iteration of processImages pushes (lines 1027-1067):
\* ready says whether initialize left the worker initialized, and
\* page.recognition is what worker.recognize does with the page's image.
processImagesIteration(page, ready) ==
    IF usesExtractedText(page)
    THEN PageResult(page.page, page.extractedText, 100)
    ELSE IF ~ready \/ page.recognition.fails
    THEN pageErrorResult(page)
    ELSE PageResult(page.page, page.recognition.text, page.recognition.confidence)

\* initialize(settings), lines 986-1017: nothing when the worker is
\* initialized; else createWorker throws, or setParameters throws with
\* this.worker set, or the worker is ready.
initialize(worker, outcome) ==
    IF worker.isInitialized THEN worker
    ELSE IF outcome = "createFails" THEN worker
    ELSE IF outcome = "parametersFail" THEN [worker |-> "created", isInitialized |-> FALSE]
    ELSE [worker |-> "created", isInitialized |-> TRUE]

\* Whether initialize gets a new worker from createWorker (line 994).
createsWorker(worker, outcome) == ~worker.isInitialized /\ outcome # "createFails"

\* Whether cleanup terminates this.worker (line 1248).
terminatesWorker(worker, terminated) == worker.worker = "created" /\ terminated

\* cleanup(), lines 1245-1255: terminate resolves, or throws and is caught.
cleanup(worker, terminated) ==
    IF worker.worker = "created" /\ terminated
    THEN [worker |-> "null", isInitialized |-> FALSE]
    ELSE worker

\* new OCRWorker(mainWindow, jobId), lines 979-984.
NoWorker == [worker |-> "null", isInitialized |-> FALSE]

\* The values other callers can hand to processText: null and a string.
NullResult == [type |-> "null", str |-> <<>>, fullText |-> <<>>, pages |-> <<>>]

StringResult(s) == [type |-> "string", str |-> s, fullText |-> <<>>, pages |-> <<>>]

-----------------------------------------------------------------------------
(* TextCorrector as a process.  new TextCorrector() starts one call of     *)
(* initializeSpellChecker that nothing awaits; processText starts a second *)
(* one and awaits it when this.spellChecker is still null.  JavaScript     *)
(* runs processText to completion between two awaits, so a pending call    *)
(* settles only while processText is suspended at line 650.  A call still  *)
(* pending when processText resumes settles after processText has          *)
(* returned, on an object nothing reads again; the model stops tracking it.*)

\* processText positions.
Stages == <<"character", "word", "punctuation", "structure", "spell", "flow", "cleanup">>

\* A catch block that logs the failure and installs nothing.
initializeSpellChecker_NoFallback(loaded) == IF loaded THEN "nspell" ELSE "null"

\* What initializeSpellChecker leaves in this.spellChecker (lines 538-562):
\* the nspell object, or the fallback built in the catch block.
initializeSpellChecker(loaded) == IF loaded THEN "nspell" ELSE "fallback"

\* A processText that runs the spell check whatever settings says.
stageAfterStructure_AlwaysSpell(config) == "spell"

\* The stage processText runs after restoreTextStructure (line 673).
stageAfterStructure(config) == IF config.enableSpellCheck THEN "spell" ELSE "flow"

\* A test for the empty string alone.
noUsableText_EmptyOnly(text) == Len(text) = 0

\* if (!text || !text.trim())  (line 643)
noUsableText(text) == Len(text) = 0 \/ Len(Trim(text)) = 0

\* A corrector kept from one document to the next, whose text accumulates.
EnterProcessText_KeepsText(ocr) ==
    LET text == correctedText \o extractText(ocr)
    IN  /\ ocrResults' = ocr
        /\ stageLog' = <<>>
        /\ spellChecker' = "null"
        /\ IF noUsableText(text)
           THEN /\ correctedText' = NoTextFallback
                /\ pendingInit' = {}
                /\ pc' = "returned"
           ELSE /\ correctedText' = text
                /\ pendingInit' = {"constructor", "processText"}
                /\ pc' = "awaitInit"

\* new TextCorrector() followed by processText(ocr, settings), up to its
\* first await or its early return (lines 531-536, 619-651).
EnterProcessText(ocr) ==
    LET text == extractText(ocr)
    IN  /\ ocrResults' = ocr
        /\ stageLog' = <<>>
        /\ spellChecker' = "null"
        /\ IF noUsableText(text)
           THEN /\ correctedText' = NoTextFallback
                /\ pendingInit' = {}
                /\ pc' = "returned"
           ELSE /\ correctedText' = text
                /\ pendingInit' = {"constructor", "processText"}
                /\ pc' = "awaitInit"

\* A call of initializeSpellChecker settles: the dictionary loaded or the
\* load failed.  When it is the call processText awaits, processText resumes.
InitSettles(call, loaded) ==
    /\ pc = "awaitInit"
    /\ call \in pendingInit
    /\ spellChecker' = initializeSpellChecker(loaded)
    /\ pendingInit' = IF call = "processText" THEN {} ELSE pendingInit \ {call}
    /\ pc' = IF call = "processText" THEN "character" ELSE pc
    /\ UNCHANGED <<ocrResults, correctedText, stageLog>>
    /\ UNCHANGED outsideCorrector

\* Step 1 (line 661)
FixCharacterErrors ==
    /\ pc = "character"
    /\ correctedText' = fixCharacterErrors(correctedText)
    /\ stageLog' = Append(stageLog, "character")
    /\ pc' = "word"
    /\ UNCHANGED <<ocrResults, spellChecker, pendingInit>>
    /\ UNCHANGED outsideCorrector

\* Step 2 (line 664)
FixWordErrors ==
    /\ pc = "word"
    /\ correctedText' = fixWordErrors(correctedText)
    /\ stageLog' = Append(stageLog, "word")
    /\ pc' = "punctuation"
    /\ UNCHANGED <<ocrResults, spellChecker, pendingInit>>
    /\ UNCHANGED outsideCorrector

\* Step 3 (line 667)
FixPunctuationErrors ==
    /\ pc = "punctuation"
    /\ correctedText' = fixPunctuationErrors(correctedText)
    /\ stageLog' = Append(stageLog, "punctuation")
    /\ pc' = "structure"
    /\ UNCHANGED <<ocrResults, spellChecker, pendingInit>>
    /\ UNCHANGED outsideCorrector

\* Step 4 (line 670)
RestoreTextStructure ==
    /\ pc = "structure"
    /\ correctedText' = restoreTextStructure(correctedText)
    /\ stageLog' = Append(stageLog, "structure")
    /\ pc' = stageAfterStructure(settings)
    /\ UNCHANGED <<ocrResults, spellChecker, pendingInit>>
    /\ UNCHANGED outsideCorrector

\* Step 5 (lines 673-675).  settings.customDictionary is '' by default
\* (unnamed/part_003 line 34), so loadCustomDictionary is not called.
PerformSpellCheck ==
    /\ pc = "spell"
    /\ correctedText' = performSpellCheck(correctedText, spellChecker, {},
                                          settings.aggressiveCorrection)
    /\ stageLog' = Append(stageLog, "spell")
    /\ pc' = "flow"
    /\ UNCHANGED <<ocrResults, spellChecker, pendingInit>>
    /\ UNCHANGED outsideCorrector

\* Step 6 (line 678)
ImproveTextFlow ==
    /\ pc = "flow"
    /\ correctedText' = improveTextFlow(correctedText)
    /\ stageLog' = Append(stageLog, "flow")
    /\ pc' = "cleanup"
    /\ UNCHANGED <<ocrResults, spellChecker, pendingInit>>
    /\ UNCHANGED outsideCorrector

\* Step 7 and the return (lines 681-683)
FinalCleanup ==
    /\ pc = "cleanup"
    /\ correctedText' = finalCleanup(correctedText)
    /\ stageLog' = Append(stageLog, "cleanup")
    /\ pc' = "returned"
    /\ UNCHANGED <<ocrResults, spellChecker, pendingInit>>
    /\ UNCHANGED outsideCorrector

-----------------------------------------------------------------------------
(* PDFProcessor: processURLs, processURL, sendProgress, cancelJob.         *)
(* processURL is suspended at its awaits; each action below is the code    *)
(* that runs when one await settles, up to the next await.                 *)

\* progress: null of pauseJob / resumeJob / cancelJob (line 492).
NoProgress == -1

\* Math.round((done / total) * span)
RoundedShare(done, total, span) == (2 * done * span + total) \div (2 * total)

\* The data object of sendProgress (lines 435-442), without its timestamp.
ProgressEvent(jobId, status, progress) ==
    [jobId |-> jobId, status |-> status, progress |-> progress]

\* sendProgress, lines 445-450: the job entry follows the event.
jobsAfterProgress(jobs, jobId, status, progress) ==
    IF jobId \in DOMAIN jobs
    THEN [jobs EXCEPT ![jobId].status = status, ![jobId].progress = progress]
    ELSE jobs

\* this.activeJobs.set(jobId, entry)
jobsWith(jobs, jobId, entry) ==
    [j \in DOMAIN jobs \cup {jobId} |-> IF j = jobId THEN entry ELSE jobs[j]]

\* fs.writeFile(outputPath, content): the file at outputPath is replaced.
filesWith(files, outputPath, file) ==
    [f \in DOMAIN files \cup {outputPath} |-> IF f = outputPath THEN file ELSE files[f]]

\* this.activeJobs.delete(jobId)
jobsWithout(jobs, jobId) == [j \in DOMAIN jobs \ {jobId} |-> jobs[j]]

\* convertPDFToImages, lines 234-237: one 'converting' event per page.
convertEvents(jobId, totalPages) ==
    [p \in 1..totalPages |->
        ProgressEvent(jobId, "converting", 25 + RoundedShare(p, totalPages, 30))]

\* OCRWorker.processImages, lines 1026-1075: one 'ocr' event per page, the
\* 'OCR engine ready' event of initialize (line 1014) on the first page,
\* and the 'Combining OCR results' event.
ocrEvents(jobId, totalPages) ==
    LET perPage == [k \in 1..totalPages |->
                       ProgressEvent(jobId, "ocr", 40 + RoundedShare(k - 1, totalPages, 25))]
        ready == ProgressEvent(jobId, "ocr", 65)
    IN  IF totalPages = 0 THEN <<ready>>
        ELSE <<perPage[1], ready>> \o SubSeq(perPage, 2, totalPages) \o <<ready>>

\* extractFileName(url, format), lines 394-410, for a URL that parses: the
\* last path segment with its extension replaced by '.' + format.
extractFileName(url, format) ==
    LET slash == MaxOf({i \in 1..Len(url) : url[i] = "/"} \cup {0})
        fileName == SubSeq(url, slash + 1, Len(url))
        dots == {i \in 1..Len(fileName) : fileName[i] = "."}
        \* /\.[^/.]+$/ : the last dot, when something follows it
        lastDot == IF dots = {} THEN 0 ELSE MaxOf(dots)
    IN  IF dots # {}
        THEN (IF lastDot < Len(fileName)
              THEN SubSeq(fileName, 1, lastDot - 1) \o <<".">> \o format
              ELSE fileName)
        ELSE <<"d","o","c","u","m","e","n","t",".">> \o format

\* settings.outputFormat of getDefaultSettings (unnamed/part_003 line 35).
outputFormat == <<"m","a","r","k","d","o","w","n">>

\* The entry processURLs pushes in its catch block (lines 54-59).
failureResult(url, jobId, error) ==
    [success |-> FALSE, url |-> url, jobId |-> jobId, error |-> error,
     markdown |-> <<>>, textLength |-> 0, oracle |-> "null", processedAt |-> 0]

\* The value processURL returns (lines 134-142).  oracle and processedAt
\* are not fields of the JavaScript object: they record the dictionary
\* oracle the job ran with and the clock reading generate took.
successResult(url, jobId, text, markdown, oracle, processedAt) ==
    [success |-> TRUE, url |-> url, jobId |-> jobId, error |-> "none",
     markdown |-> markdown, textLength |-> Len(text), oracle |-> oracle,
     processedAt |-> processedAt]

\* A try/catch around the whole loop: the first failure ends the batch.
JobFails_EndsBatch(error, sent) ==
    /\ results' = Append(results, failureResult(urls[urlIndex].url, urlIndex, error))
    /\ events' = Append(sent, ProgressEvent(urlIndex, "error", 0))
    /\ activeJobs' = jobsAfterProgress(activeJobs, urlIndex, "error", 0)
    /\ urlIndex' = Len(urls) + 1
    /\ phase' = "loop"

\* The catch block of processURLs (lines 52-61) and the next loop
\* iteration: the error is absorbed into a result and one 'error' event.
JobFails(error, sent) ==
    /\ results' = Append(results, failureResult(urls[urlIndex].url, urlIndex, error))
    /\ events' = Append(sent, ProgressEvent(urlIndex, "error", 0))
    /\ activeJobs' = jobsAfterProgress(activeJobs, urlIndex, "error", 0)
    /\ urlIndex' = urlIndex + 1
    /\ phase' = "loop"

\* processURLs, lines 45-50, and processURL up to await downloadPDF
\* (lines 67-81).  The job id is the position of the URL in the batch:
\* generateJobId gives every job an id of its own.  Time passes between
\* two jobs; the clock of the first job is the origin.
StartJob ==
    /\ phase = "loop"
    /\ urlIndex <= Len(urls)
    /\ activeJobs' = jobsWith(activeJobs, urlIndex,
                        [url |-> urls[urlIndex].url, status |-> "downloading", progress |-> 0])
    /\ events' = Append(events, ProgressEvent(urlIndex, "downloading", 0))
    /\ phase' = "downloading"
    /\ clock' \in (IF urlIndex = 1 THEN {clock} ELSE {clock, clock + 1})
    /\ UNCHANGED <<urls, urlIndex, results, outputFiles>>
    /\ UNCHANGED <<settings, correctorVars, rendered, structureVars, flowVars, ocrVars, lineVars, wordVars, docVars>>

\* processURLs, line 64: the loop is over and the results are returned.
ReturnResults ==
    /\ phase = "loop"
    /\ urlIndex > Len(urls)
    /\ phase' = "returned"
    /\ UNCHANGED <<urls, urlIndex, results, events, activeJobs, outputFiles, clock>>
    /\ UNCHANGED <<settings, correctorVars, rendered, structureVars, flowVars, ocrVars, lineVars, wordVars, docVars>>

\* await downloadPDF settles (lines 81-90): the file is written (line 183)
\* or downloadPDF throws.
DownloadSettles ==
    /\ phase = "downloading"
    /\ IF urls[urlIndex].downloads
       THEN /\ events' = events \o <<ProgressEvent(urlIndex, "downloading", 25),
                                     ProgressEvent(urlIndex, "converting", 25)>>
            /\ activeJobs' = jobsAfterProgress(activeJobs, urlIndex, "converting", 25)
            /\ phase' = "converting"
            /\ UNCHANGED <<urlIndex, results>>
       ELSE JobFails("download", events)
    /\ UNCHANGED <<urls, outputFiles, clock>>
    /\ UNCHANGED <<settings, correctorVars, rendered, structureVars, flowVars, ocrVars, lineVars, wordVars, docVars>>

\* await convertPDFToImages settles (lines 90-100, 204-349): the pages are
\* converted, or the write of line 340 throws.
ConvertSettles ==
    /\ phase = "converting"
    /\ IF urls[urlIndex].converts
       THEN /\ events' = events \o convertEvents(urlIndex, Len(urls[urlIndex].pages))
                               \o <<ProgressEvent(urlIndex, "ocr", 40)>>
            /\ activeJobs' = jobsAfterProgress(activeJobs, urlIndex, "ocr", 40)
            /\ phase' = "ocr"
            /\ UNCHANGED <<urlIndex, results>>
       ELSE JobFails("convert", events)
    /\ UNCHANGED <<urls, outputFiles, clock>>
    /\ UNCHANGED <<settings, correctorVars, rendered, structureVars, flowVars, ocrVars, lineVars, wordVars, docVars>>

\* await ocrWorker.processImages settles (lines 100-108): the page results
\* are combined, a TextCorrector is built and processText is called.
OcrSettles ==
    /\ phase = "ocr"
    /\ events' = events \o ocrEvents(urlIndex, Len(urls[urlIndex].pages))
                        \o <<ProgressEvent(urlIndex, "correcting", 70)>>
    /\ activeJobs' = jobsAfterProgress(activeJobs, urlIndex, "correcting", 70)
    /\ phase' = "correcting"
    /\ EnterProcessText(combinePageResults(urls[urlIndex].pages))
    /\ UNCHANGED <<urls, urlIndex, results, outputFiles, clock>>
    /\ UNCHANGED <<settings, rendered, structureVars, flowVars, ocrVars, lineVars, wordVars, docVars>>

\* await corrector.processText settles (lines 108-125): generate is called
\* with the corrected text, sourceURL and settings.includeMetadata, and
\* saveOutput is started.  A throw of generate leaves processURL.
Generate ==
    /\ phase = "correcting"
    /\ pc = "returned"
    /\ LET now == clock
             text == [isString |-> TRUE, str |-> correctedText]
             options == [sourceURL |-> urls[urlIndex].url,
                         metadata |-> settings.includeMetadata,
                         includeTableOfContents |-> FALSE]
             sent == Append(events, ProgressEvent(urlIndex, "generating", 85))
         IN  /\ rendered' = [called |-> TRUE, text |-> text, options |-> options,
                             now |-> now, out |-> generate(text, options, now)]
             /\ IF rendered'.out.thrown
                THEN JobFails("generate", sent)
                ELSE /\ events' = Append(sent, ProgressEvent(urlIndex, "saving", 95))
                     /\ activeJobs' = jobsAfterProgress(activeJobs, urlIndex, "saving", 95)
                     /\ phase' = "saving"
                     /\ UNCHANGED <<urlIndex, results>>
    /\ pc' = "idle"
    /\ stageLog' = Append(stageLog, "generate")
    /\ UNCHANGED <<urls, outputFiles, clock>>
    /\ UNCHANGED <<ocrResults, correctedText, spellChecker, pendingInit>>
    /\ UNCHANGED <<settings, structureVars, flowVars, ocrVars, lineVars, wordVars, docVars>>

\* await saveOutput settles (lines 125-129, 367-376): the file is written
\* under the name extractFileName gives, or writeFile throws.
SaveSettles ==
    /\ phase = "saving"
    /\ IF urls[urlIndex].saves
       THEN /\ outputFiles' =
                   filesWith(outputFiles, extractFileName(urls[urlIndex].url, outputFormat),
                             [jobId |-> urlIndex, content |-> rendered.out.markdown])
            /\ phase' = "cleanup"
            /\ UNCHANGED <<urlIndex, results, events, activeJobs>>
       ELSE /\ JobFails("save", events)
            /\ UNCHANGED outputFiles
    /\ UNCHANGED <<urls, clock>>
    /\ UNCHANGED <<settings, correctorVars, rendered, structureVars, flowVars, ocrVars, lineVars, wordVars, docVars>>

\* await this.cleanup settles (lines 129-142, 378-392) and processURLs
\* pushes the result (line 51).
CleanupSettles ==
    /\ phase = "cleanup"
    /\ events' = Append(events, ProgressEvent(urlIndex, "complete", 100))
    /\ activeJobs' = jobsWithout(activeJobs, urlIndex)
    /\ results' = Append(results,
                     successResult(urls[urlIndex].url, urlIndex, correctedText,
                                   rendered.out.markdown, spellChecker, rendered.now))
    /\ urlIndex' = urlIndex + 1
    /\ phase' = "loop"
    /\ UNCHANGED <<urls, outputFiles, clock>>
    /\ UNCHANGED <<settings, correctorVars, rendered, structureVars, flowVars, ocrVars, lineVars, wordVars, docVars>>

\* The phases in which processURL is suspended on I/O: the moments at
\* which another handler can run.
suspended ==
    \/ phase \in {"downloading", "converting", "ocr", "saving", "cleanup"}
    \/ phase = "correcting" /\ pc = "awaitInit"

\* cancelJob(jobId), lines 489-495, called for the running job while
\* processURL is suspended; one call in a batch.
CancelJob ==
    /\ suspended
    /\ urlIndex \in DOMAIN activeJobs
    /\ \A k \in 1..Len(events) : events[k].status # "cancelled"
    /\ events' = Append(events, ProgressEvent(urlIndex, "cancelled", NoProgress))
    /\ activeJobs' = jobsAfterProgress(activeJobs, urlIndex, "cancelled", NoProgress)
    /\ UNCHANGED <<urls, urlIndex, phase, results, outputFiles, clock>>
    /\ UNCHANGED <<settings, correctorVars, rendered, structureVars, flowVars, ocrVars, lineVars, wordVars, docVars>>

-----------------------------------------------------------------------------
(* Values the other specifications hold the variables of a component at    *)
(* while they do not run it.                                               *)

\* getDefaultSettings (unnamed/part_003 lines 27-40).  The object has no
\* includeTableOfContents key: reading it gives undefined, which is falsy.
DefaultSettings ==
    [enableSpellCheck |-> TRUE, aggressiveCorrection |-> FALSE, includeMetadata |-> TRUE,
     includeTableOfContents |-> FALSE]

NotRendered ==
    [called |-> FALSE,
     text |-> [isString |-> FALSE, str |-> <<>>],
     options |-> [sourceURL |-> <<>>, metadata |-> FALSE, includeTableOfContents |-> FALSE],
     now |-> 0,
     out |-> [thrown |-> FALSE, markdown |-> <<>>]]

NoBatch ==
    /\ urls = <<>>
    /\ urlIndex = 1
    /\ phase = "none"
    /\ results = <<>>
    /\ events = <<>>
    /\ activeJobs = <<>>
    /\ outputFiles = <<>>
    /\ clock = 0

NoCorrector ==
    /\ ocrResults = NullResult
    /\ pc = "idle"
    /\ correctedText = <<>>
    /\ spellChecker = "null"
    /\ pendingInit = {}
    /\ stageLog = <<>>

NoStructureLoop ==
    /\ loopLines = <<>>
    /\ loopIndex = 1
    /\ loopProcessed = <<>>
    /\ loopParagraph = <<>>
    /\ processedFrom = <<>>
    /\ paragraphFrom = {}

NoFlowCalls ==
    /\ flowIn = <<>>
    /\ flowPrev = <<>>
    /\ flowText = <<>>
    /\ flowCalls = 0

NoOcr ==
    /\ imagePages = <<>>
    /\ processedPages = 0
    /\ ocrPageResults = <<>>
    /\ ocrWorker = NoWorker
    /\ ocrSent = <<>>
    /\ structuredText = NullResult
    /\ liveWorkers = 0

NoArguments ==
    [originalWord |-> <<>>, suggestions |-> <<>>, aggressiveMode |-> FALSE,
     text |-> <<>>, checker |-> "null", customDictionary |-> {}]

NoWordCalls ==
    /\ wordIn = NoArguments
    /\ wordCalls = {}
    /\ suggestionOut = <<>>
    /\ spellOut = <<>>
    /\ characterOut = <<>>
    /\ wordOut = <<>>

NoDocumentCalls ==
    /\ docIn = <<>>
    /\ docOptions = [sourceURL |-> <<>>, metadata |-> FALSE, includeTableOfContents |-> FALSE]
    /\ docCalls = {}
    /\ docContent = [thrown |-> FALSE, content |-> <<>>]
    /\ docMarkdown = [thrown |-> FALSE, markdown |-> <<>>]

NoLineCalls ==
    /\ lineIn = <<>>
    /\ lineCalls = {}
    /\ headingOut = NoHeading
    /\ listItemOut = <<>>
    /\ contentOut = [thrown |-> FALSE, content |-> <<>>]

-----------------------------------------------------------------------------
(* The documents and settings the specifications run the pipeline on.      *)

\* 'HELLO WORLD', a blank line, 'This is a test.'
TextHelloTest == <<"H","E","L","L","O"," ","W","O","R","L","D","\n","\n","T","h","i","s"," ","i","s"," ","a"," ","t","e","s","t",".">>

\* One line of capital letters.
TextCaps == <<"H","E","L","L","O"," ","W","O","R","L","D">>

\* Two pages with errors of each rule table and words off the word lists.
TextErrorsOne == <<"t","l","i","e"," ","c","1","a","s","s"," ",",",","," ","o","k">>

TextErrorsTwo == <<"t","h","a"," ","e","n","d"," ",".","n","e","x","t">>

\* A page of white space.
TextBlank == <<" ","\n"," ">>

\* A page that holds a page marker only.
TextMarker == <<"-","-","-"," ","P","a","g","e"," ","2"," ","-","-","-">>

\* A numbered heading, a list item, a link and a paragraph.
TextMixed == <<"1","."," ","I","n","t","r","o","\n","-"," ","i","t","e","m"," ","o","n","e","\n","s","e","e"," ","h","t","t","p",":","/","/","a",".","b","\n","m","o","r","e"," ","t","e","x","t">>

\* Two lines in columns.
\* One line with a numeric prefix.
TextNumbered == <<"2","."," ","P","l","a","n">>

TextColumns == <<"N","a","m","e"," "," "," "," ","A","g","e","\n","A","n","n"," "," "," "," "," ","3","0">>

SinglePage(text) == <<PageResult(1, text, 95)>>

TwoPages(first, second) == <<PageResult(1, first, 95), PageResult(2, second, 60)>>

SettingsSamples ==
    [enableSpellCheck : BOOLEAN, aggressiveCorrection : BOOLEAN, includeMetadata : BOOLEAN,
     includeTableOfContents : BOOLEAN]

-----------------------------------------------------------------------------
(* Spec: processURLs on a batch of at most MaxUrls URLs.                   *)

MaxUrls == 2

\* What a URL serves: the text recognised on each page of its PDF, and how
\* the download, the conversion and the write of the output end.
Site(name, pageResults, downloads, converts, saves) ==
    [url |-> <<"h","t","t","p",":","/","/","h","/">> \o name \o <<".","p","d","f">>,
     pages |-> pageResults,
     downloads |-> downloads,
     converts |-> converts,
     saves |-> saves]

ServingSites ==
    {Site(<<"a">>, SinglePage(TextHelloTest), TRUE, TRUE, TRUE),
     Site(<<"b">>, SinglePage(TextCaps), TRUE, TRUE, TRUE),
     Site(<<"c">>, TwoPages(TextErrorsOne, TextErrorsTwo), TRUE, TRUE, TRUE),
     Site(<<"d">>, SinglePage(TextBlank), TRUE, TRUE, TRUE)}

FailingSites ==
    {Site(<<"e">>, SinglePage(TextErrorsTwo), FALSE, TRUE, TRUE),
     Site(<<"f">>, SinglePage(TextErrorsTwo), TRUE, FALSE, TRUE),
     Site(<<"g">>, SinglePage(TextErrorsTwo), TRUE, TRUE, FALSE)}

\* http://k/n.pdf: another host serves another document under the file
\* name of http://h/n.pdf.
MirrorSite ==
    [Site(<<"n">>, SinglePage(TextErrorsTwo), TRUE, TRUE, TRUE)
        EXCEPT !.url = <<"h","t","t","p",":","/","/","k","/","n",".","p","d","f">>]

\* The batches: one URL n times over, a URL that fails or whose rendering
\* throws followed by URLs that serve, a document with a heading, and that
\* document followed by the one of the other host.
Batches ==
    {<<Site(<<"n">>, SinglePage(TextNumbered), TRUE, TRUE, TRUE)>>,
     <<Site(<<"n">>, SinglePage(TextNumbered), TRUE, TRUE, TRUE), MirrorSite>>} \cup
    UNION {
      {[i \in 1..n |-> site] : site \in ServingSites}
        \cup {[i \in 1..n |-> IF i = 1 THEN first ELSE site] :
                 first \in FailingSites \cup {Site(<<"b">>, SinglePage(TextCaps), TRUE, TRUE, TRUE)},
                 site \in {Site(<<"c">>, TwoPages(TextErrorsOne, TextErrorsTwo), TRUE, TRUE, TRUE)}}
      : n \in 1..MaxUrls}

\* The settings of a batch: every setting of the spell check and of the
\* metadata block, and the defaults with includeTableOfContents switched on.
BatchSettings ==
    {config \in SettingsSamples :
        /\ ~config.aggressiveCorrection
        /\ config.includeTableOfContents =>
              config = [DefaultSettings EXCEPT !.includeTableOfContents = TRUE]}

Init ==
    /\ urls \in Batches
    /\ settings \in BatchSettings
    /\ urlIndex = 1
    /\ phase = "loop"
    /\ results = <<>>
    /\ events = <<>>
    /\ activeJobs = <<>>
    /\ outputFiles = <<>>
    /\ clock = 0
    /\ NoCorrector
    /\ rendered = NotRendered
    /\ NoStructureLoop
    /\ NoFlowCalls
    /\ NoOcr
    /\ NoLineCalls
    /\ NoDocumentCalls
    /\ NoWordCalls

\* A step of processText while its caller awaits it.
Correcting ==
    /\ phase \in {"correcting", "direct"}
    /\ \/ \E call \in {"constructor", "processText"}, loaded \in BOOLEAN :
              InitSettles(call, loaded)
       \/ FixCharacterErrors
       \/ FixWordErrors
       \/ FixPunctuationErrors
       \/ RestoreTextStructure
       \/ PerformSpellCheck
       \/ ImproveTextFlow
       \/ FinalCleanup

Next ==
    \/ StartJob
    \/ DownloadSettles
    \/ ConvertSettles
    \/ OcrSettles
    \/ Correcting
    \/ Generate
    \/ SaveSettles
    \/ CleanupSettles
    \/ CancelJob
    \/ ReturnResults

vars == <<settings, batchVars, correctorVars, rendered, structureVars, flowVars, ocrVars, lineVars, wordVars, docVars>>

Spec == Init /\ [][Next]_vars

-----------------------------------------------------------------------------
(* Properties of processURLs (Spec).                                       *)

IsPrefix(s, t) == Len(s) <= Len(t) /\ SubSeq(t, 1, Len(s)) = s

\* The stages processText runs for a configuration, in order.
ExpectedStages(config) ==
    <<"character", "word", "punctuation", "structure">>
        \o (IF config.enableSpellCheck THEN <<"spell">> ELSE <<>>)
        \o <<"flow", "cleanup">>

\* The events of job j with one status.
EventsOf(j, status) ==
    {k \in DOMAIN events : events[k].jobId = j /\ events[k].status = status}

\* C1: the stages of a document run in the order character, word,
\* punctuation, structure, spell check (only when enableSpellCheck is
\* set), flow, final cleanup, and generate runs after processText has
\* returned; a stage starts when every stage before it has run, whatever
\* the settings are.  A document without usable text runs no stage before
\* generate.
C1_StageOrder ==
    /\ \/ IsPrefix(stageLog, ExpectedStages(settings) \o <<"generate">>)
       \/ /\ stageLog = <<"generate">>
          /\ noUsableText(extractText(ocrResults))
    /\ \A k \in 1..Len(Stages) :
           pc = Stages[k] => IsPrefix(Append(stageLog, pc), ExpectedStages(settings))

C1_Witness ==
    /\ ~settings.enableSpellCheck
    /\ stageLog = <<"character", "word", "punctuation", "structure", "flow", "cleanup", "generate">>

C8_OneResultPerUrl ==
    /\ Len(results) = urlIndex - 1
    /\ Len(results) <= Len(urls)
    /\ \A i \in DOMAIN results :
           /\ results[i].url = urls[i].url
           /\ results[i].jobId = i
           /\ Cardinality(EventsOf(i, "error")) = (IF results[i].success THEN 0 ELSE 1)
    /\ phase = "returned" => Len(results) = Len(urls)

C8_Witness ==
    /\ phase = "returned"
    /\ Len(urls) = 2
    /\ ~results[1].success
    /\ results[1].error = "convert"
    /\ results[2].success

\* C9 as stated: a job cancelled before its markdown is generated runs no
\* further stage: no later progress event, no output file, no 'complete'
\* event and no successful result for it.
C9_CancelStopsJob ==
    \A k \in DOMAIN events :
        (events[k].status = "cancelled" /\ events[k].jobId = 1
            /\ \A m \in 1..k : events[m].status # "generating")
        => /\ \A m \in DOMAIN events :
                  (m > k /\ events[m].jobId = 1) => events[m].status = "error"
           /\ \A f \in DOMAIN outputFiles : outputFiles[f].jobId # 1
           /\ EventsOf(1, "complete") = {}
           /\ \A i \in DOMAIN results : results[i].jobId = 1 => ~results[i].success

\* C10: whenever processText is at one of its stages, and so whenever it
\* is at the spell check, this.spellChecker is an oracle: a failed load
\* installed the fallback and processText went on.
C10_OracleInstalled ==
    (\E k \in 1..Len(Stages) : pc = Stages[k]) => spellChecker \in {"nspell", "fallback"}

C10_Witness ==
    /\ pc = "spell"
    /\ spellChecker = "fallback"
    /\ stageLog = <<"character", "word", "punctuation", "structure">>

\* C11: the oracle of a TextCorrector is initialized once: at no time are
\* two calls of initializeSpellChecker in flight on one corrector (the one
\* the constructor starts at line 535 and the one processText starts at
\* line 650), each of which assigns this.spellChecker when it settles.
C11_InitializedOnce == Cardinality(pendingInit) <= 1

\* The line is one of the lines of text.
HasLine(text, line) == \E k \in 1..Len(Split(text, "\n")) : Split(text, "\n")[k] = line

\* The title line generate writes above the table of contents (line 62).
TocTitle == <<"#","#"," ","T","a","b","l","e"," ","o","f"," ","C","o","n","t","e","n","t","s">>

\* The markdown has a heading line other than the title of the table.
HasHeadingLine(markdown) ==
    \E k \in 1..Len(Split(markdown, "\n")) :
        /\ Len(matchMarkdownHeading(Split(markdown, "\n")[k])) > 0
        /\ Split(markdown, "\n")[k] # TocTitle

\* C12: the markdown processURL returns for a document follows
\* settings.includeTableOfContents: when it is true and the markdown has a
\* heading, the markdown holds the table of contents; when it is false the
\* markdown holds none.
C12_TocFollowsSetting ==
    \A i \in DOMAIN results :
        results[i].success =>
            /\ (settings.includeTableOfContents /\ HasHeadingLine(results[i].markdown))
                   => HasLine(results[i].markdown, TocTitle)
            /\ ~settings.includeTableOfContents
                   => ~HasLine(results[i].markdown, TocTitle)

\* The stages of a job that is under way.
NonTerminalStages ==
    {"downloading", "converting", "ocr", "correcting", "generating", "saving"}

\* The jobs of this.activeJobs that are at a non-terminal stage.
JobsUnderWay == {j \in DOMAIN activeJobs : activeJobs[j].status \in NonTerminalStages}

\* Two jobs were under way at the same time: a message of a later job was
\* sent before a message of an earlier one.
JobsOverlapped ==
    \E i, k \in DOMAIN events : i < k /\ events[i].jobId > events[k].jobId

\* C15: the PDFs of a batch are processed simultaneously: when processURLs
\* returns for two or more URLs, more than one job has been at a
\* non-terminal stage at the same time.
C15_JobsOverlap == (phase = "returned" /\ Len(urls) >= 2) => JobsOverlapped

\* processURLs awaits processURL inside its for loop (line 50): a job starts
\* when the job before it has ended, so at most one job is under way.
OneJobAtATime == Cardinality(JobsUnderWay) <= 1

\* The statuses processURL and the OCR worker report between the start of
\* a job and its completion.
PipelineStatuses ==
    {"downloading", "converting", "ocr", "correcting", "generating", "saving", "complete"}

\* C28: within one job the percentage of successive progress events never
\* decreases, from 'downloading' (0) to 'complete' (100).
C28_ProgressNeverDecreases ==
    \A i, k \in DOMAIN events :
        ( /\ i < k
          /\ events[i].jobId = events[k].jobId
          /\ events[i].status \in PipelineStatuses
          /\ events[k].status \in PipelineStatuses )
            => events[i].progress <= events[k].progress

\* The events processURL itself sends (the first event of each status other
\* than the per-page ones) do carry increasing percentages.
StageProgressIncreases ==
    \A i, k \in DOMAIN events :
        ( /\ i < k
          /\ events[i].jobId = events[k].jobId
          /\ events[i].status \in PipelineStatuses
          /\ events[k].status \in PipelineStatuses
          /\ events[i].status # events[k].status
          /\ events[i].status \notin {"converting", "ocr"} )
            => events[i].progress <= events[k].progress

\* The jobs of the batch that were given URL url.
JobsOf(url) == {j \in DOMAIN urls : urls[j].url = url}

\* C29: two different URLs of a batch never get the same output path, so
\* when the batch has returned the file of every successful job is still
\* there, written by that job or by a job for the same URL.
C29_OutputNeverOverwritten ==
    phase = "returned" =>
        /\ \A i, k \in DOMAIN urls :
              urls[i].url # urls[k].url =>
                  extractFileName(urls[i].url, outputFormat)
                      # extractFileName(urls[k].url, outputFormat)
        /\ \A r \in DOMAIN results :
              results[r].success =>
                  \E f \in DOMAIN outputFiles :
                      outputFiles[f].jobId \in JobsOf(results[r].url)

\* Every successful job did write a file under the name of its URL.
OutputWritten ==
    \A r \in DOMAIN results :
        results[r].success =>
            extractFileName(results[r].url, outputFormat) \in DOMAIN outputFiles

-----------------------------------------------------------------------------
(* SpecFlow: improveTextFlow applied, and applied again to its own result, *)
(* on every text over FlowAlphabet of length at most MaxFlowLen.           *)

MaxFlowLen == 6

FlowAlphabet == {" ", "\n", ".", ",", "a", "A"}

InitFlow ==
    /\ flowIn \in StringsUpTo(FlowAlphabet, MaxFlowLen)
    /\ flowPrev = flowIn
    /\ flowText = flowIn
    /\ flowCalls = 0
    /\ settings = DefaultSettings
    /\ NoBatch
    /\ NoCorrector
    /\ rendered = NotRendered
    /\ NoStructureLoop
    /\ NoOcr
    /\ NoLineCalls
    /\ NoDocumentCalls
    /\ NoWordCalls

CallImproveTextFlow ==
    /\ flowCalls < 2
    /\ flowPrev' = flowText
    /\ flowText' = improveTextFlow(flowText)
    /\ flowCalls' = flowCalls + 1
    /\ UNCHANGED flowIn
    /\ UNCHANGED <<settings, batchVars, correctorVars, rendered, structureVars, ocrVars, lineVars, wordVars, docVars>>

SpecFlow == InitFlow /\ [][CallImproveTextFlow]_vars

\* C6: improveTextFlow is idempotent: the second call, made on the result of
\* the first, returns its argument unchanged.
C6_FlowIdempotent == flowCalls = 2 => flowText = flowPrev

\* The first call changed the text and the second call was made.
C6_Witness == flowCalls = 2 /\ flowPrev # flowIn /\ Len(flowIn) = 4

-----------------------------------------------------------------------------
(* SpecCalls: processText and generate called directly, as processURL      *)
(* calls them and with the other arguments their signatures admit.         *)

\* 'x = 1;' between two lines of prose.
TextCode == <<"n","o","t","e","\n","x"," ","="," ","1",";","\n","d","o","n","e",".">>

\* The values processText is called with: null, a result without pages, a
\* result whose pages are blank, a string, and results with text.
CallArguments ==
    {NullResult,
     combinePageResults(<<>>),
     combinePageResults(SinglePage(TextBlank)),
     StringResult(TextBlank),
     StringResult(TextMixed),
     combinePageResults(SinglePage(TextHelloTest)),
     combinePageResults(SinglePage(TextCaps)),
     combinePageResults(SinglePage(TextMarker)),
     combinePageResults(SinglePage(TextColumns)),
     combinePageResults(TwoPages(TextErrorsOne, TextErrorsTwo))}

\* The values generate is called with apart from the result of processText:
\* a value that is no string, the empty string, and texts that keep their
\* lines.
GenerateArguments ==
    {[isString |-> FALSE, str |-> <<>>]}
        \cup {[isString |-> TRUE, str |-> text] :
                 text \in {<<>>, NoTextFallback, TextHelloTest, TextCaps, TextMixed,
                           TextColumns, TextCode}}

SampleURL == <<"h","t","t","p",":","/","/","h","/","a",".","p","d","f">>

InitCalls ==
    /\ settings \in SettingsSamples
    /\ urls = <<>>
    /\ urlIndex = 1
    /\ phase = "direct"
    /\ results = <<>>
    /\ events = <<>>
    /\ activeJobs = <<>>
    /\ outputFiles = <<>>
    /\ clock = 0
    /\ NoCorrector
    /\ rendered = NotRendered
    /\ NoStructureLoop
    /\ NoFlowCalls
    /\ NoOcr
    /\ NoLineCalls
    /\ NoDocumentCalls
    /\ NoWordCalls

\* new TextCorrector().processText(ocr, settings)
CallProcessText ==
    /\ phase = "direct"
    /\ pc = "idle"
    /\ ~rendered.called
    /\ \E ocr \in CallArguments : EnterProcessText(ocr)
    /\ UNCHANGED <<settings, batchVars, rendered, structureVars, flowVars, ocrVars, lineVars, wordVars, docVars>>

\* generator.generate(text, options): on the text processText returned, or
\* on another value.
CallGenerate ==
    /\ phase = "direct"
    /\ ~rendered.called
    /\ \E includeTableOfContents \in BOOLEAN :
       \E text \in (IF pc = "returned" THEN {[isString |-> TRUE, str |-> correctedText]}
                    ELSE IF pc = "idle" THEN GenerateArguments
                    ELSE {}) :
           LET options == [sourceURL |-> SampleURL,
                           metadata |-> settings.includeMetadata,
                           includeTableOfContents |-> includeTableOfContents]
           IN  rendered' = [called |-> TRUE, text |-> text, options |-> options,
                            now |-> clock, out |-> generate(text, options, clock)]
    /\ stageLog' = Append(stageLog, "generate")
    /\ pc' = "idle"
    /\ UNCHANGED <<ocrResults, correctedText, spellChecker, pendingInit>>
    /\ UNCHANGED <<settings, batchVars, structureVars, flowVars, ocrVars, lineVars, wordVars, docVars>>

NextCalls ==
    \/ CallProcessText
    \/ Correcting
    \/ CallGenerate

SpecCalls == InitCalls /\ [][NextCalls]_vars

\* The text is empty or white space only.
OnlyWhitespace(text) == \A k \in 1..Len(text) : text[k] \in WS

\* C2 as stated: generate throws for no text it is given.
C2_NeverThrows == rendered.called => ~rendered.out.thrown

\* C3: processText called with a result that carries no text other than
\* white space returns the placeholder of line 645, and generate given a
\* value that is no string, or the empty string, or that placeholder,
\* renders a markdown that is not empty and holds the placeholder it was
\* given or put in.
C3_Placeholders ==
    /\ (pc = "returned" /\ OnlyWhitespace(extractText(ocrResults)))
           => correctedText = NoTextFallback
    /\ (rendered.called /\ (~rendered.text.isString \/ Len(rendered.text.str) = 0))
           => /\ ~rendered.out.thrown
              /\ Len(rendered.out.markdown) > 0
              /\ Includes(rendered.out.markdown, NoContentFallback)
    /\ (rendered.called /\ rendered.text.isString /\ rendered.text.str = NoTextFallback)
           => /\ ~rendered.out.thrown
              /\ Len(rendered.out.markdown) > 0
              /\ Includes(rendered.out.markdown, SubSeq(NoTextFallback, 1, 40))

C3_Witness ==
    /\ rendered.called
    /\ ocrResults = combinePageResults(SinglePage(TextBlank))
    /\ stageLog = <<"generate">>
    /\ rendered.text.str = NoTextFallback
    /\ Len(rendered.out.markdown) > 0

\* C4 as stated: the page 'HELLO WORLD', blank line, 'This is a test.'
\* through processText and generate with the default settings and the
\* table of contents asked for gives a markdown with HELLO WORLD as a
\* level-2 heading on a line of its own and a contents entry that links
\* to #hello-world.
C4_HelloWorldHeading ==
    ( /\ rendered.called
      /\ settings = DefaultSettings
      /\ ocrResults = combinePageResults(SinglePage(TextHelloTest))
      /\ Len(stageLog) > 1
      /\ rendered.options.includeTableOfContents )
        => /\ ~rendered.out.thrown
           /\ \/ HasLine(rendered.out.markdown, <<"#","#"," ","H","E","L","L","O"," ","W","O","R","L","D">>)
              \/ HasLine(rendered.out.markdown, <<"#","#"," ","H","e","l","l","o"," ","W","o","r","l","d">>)
           /\ Includes(rendered.out.markdown, <<"(","#","h","e","l","l","o","-","w","o","r","l","d",")">>)

-----------------------------------------------------------------------------
(* SpecStructure: the loop of restoreTextStructure, one iteration per      *)
(* step, on every text of at most MaxLines lines drawn from LineSamples.   *)
(* processedFrom and paragraphFrom record which input lines each output    *)
(* line and the paragraph buffer were built from.                          *)

MaxLines == 3

\* 'This sentence continues', 'onto the next line.', 'This ends.' and
\* 'Next Sentence starts.'
LineContinues == <<"T","h","i","s"," ","s","e","n","t","e","n","c","e"," ","c","o","n","t","i","n","u","e","s">>

LineOnto == <<"o","n","t","o"," ","t","h","e"," ","n","e","x","t"," ","l","i","n","e",".">>

LineEnds == <<"T","h","i","s"," ","e","n","d","s",".">>

LineNextSentence == <<"N","e","x","t"," ","S","e","n","t","e","n","c","e"," ","s","t","a","r","t","s",".">>

LineSamples ==
    {<<"H","E","L","L","O"," ","W","O","R","L","D">>,
     <<"c","o","n","t","i","n","u","e","s"," ","h","e","r","e">>,
     <<"1","."," ","I","n","t","r","o">>,
     <<"-"," ","i","t","e","m">>,
     <<>>,
     TextMarker,
     LineContinues,
     LineOnto,
     LineEnds,
     LineNextSentence,
     <<"S","t","o","p","!">>,
     <<" ","w","h","y","?">>}

InitStructure ==
    /\ loopLines \in UNION {[1..n -> LineSamples] : n \in 1..MaxLines}
    /\ loopIndex = 1
    /\ loopProcessed = <<>>
    /\ loopParagraph = <<>>
    /\ processedFrom = <<>>
    /\ paragraphFrom = {}
    /\ settings = DefaultSettings
    /\ NoBatch
    /\ NoCorrector
    /\ rendered = NotRendered
    /\ NoFlowCalls
    /\ NoOcr
    /\ NoLineCalls
    /\ NoDocumentCalls
    /\ NoWordCalls

\* One iteration of the for loop (lines 729-757).
StructureIteration ==
    /\ loopIndex <= Len(loopLines)
    /\ LET line == Trim(loopLines[loopIndex])
           kind == structureKind(line, loopParagraph)
           flushes == kind \in {"blank", "new"} /\ Len(loopParagraph) > 0
           flushed == IF flushes THEN Append(processedFrom, paragraphFrom)
                      ELSE processedFrom
       IN  /\ loopProcessed' = structureProcessed(kind, loopProcessed, loopParagraph)
           /\ loopParagraph' = structureParagraph(kind, line, loopParagraph)
           /\ processedFrom' = IF kind = "blank" THEN Append(flushed, {loopIndex})
                               ELSE flushed
           /\ paragraphFrom' = CASE kind = "marker" -> paragraphFrom
                                 [] kind = "blank"  -> {}
                                 [] kind = "merge"  -> paragraphFrom \cup {loopIndex}
                                 [] kind = "new"    -> {loopIndex}
    /\ loopIndex' = loopIndex + 1
    /\ UNCHANGED loopLines
    /\ UNCHANGED <<settings, batchVars, correctorVars, rendered, flowVars, ocrVars, lineVars, wordVars, docVars>>

\* The final paragraph is pushed (lines 759-762) and the loop is left.
StructureReturn ==
    /\ loopIndex = Len(loopLines) + 1
    /\ loopProcessed' = structureFlush(loopProcessed, loopParagraph)
    /\ processedFrom' = IF Len(loopParagraph) > 0
                        THEN Append(processedFrom, paragraphFrom) ELSE processedFrom
    /\ loopParagraph' = <<>>
    /\ paragraphFrom' = {}
    /\ loopIndex' = loopIndex + 1
    /\ UNCHANGED loopLines
    /\ UNCHANGED <<settings, batchVars, correctorVars, rendered, flowVars, ocrVars, lineVars, wordVars, docVars>>

NextStructure == StructureIteration \/ StructureReturn

SpecStructure == InitStructure /\ [][NextStructure]_vars

\* C7 as stated: an output line that holds an input line that looks like a
\* heading holds that line alone.
C7_HeadingNeverJoined ==
    \A k \in DOMAIN processedFrom : \A j \in processedFrom[k] :
        looksLikeHeading(Trim(loopLines[j])) => processedFrom[k] = {j}

\* No line in front of a heading shares its output line.
HeadingStartsItsLine ==
    \A k \in DOMAIN processedFrom : \A j \in processedFrom[k] :
        looksLikeHeading(Trim(loopLines[j])) => \A i \in processedFrom[k] : i >= j

\* The step-by-step loop and the operator give the same lines.
StructureLoopAgrees ==
    loopIndex = Len(loopLines) + 2
        => /\ loopProcessed = structureLoop(loopLines, 1, <<>>, <<>>)
           /\ Len(processedFrom) = Len(loopProcessed)

-----------------------------------------------------------------------------
(* SpecOcr: OCRWorker.processImages on the arrays convertPDFToImages       *)
(* returns: image pages (lines 239-243), or text pages that carry the text *)
(* pdf-parse extracted (lines 274-280), of at most MaxPages pages.         *)

MaxPages == 3

\* What worker.recognize does with the image of a page.
RecognitionFails == [fails |-> TRUE, text |-> <<>>, confidence |-> 0]

Recognised(text, confidence) == [fails |-> FALSE, text |-> text, confidence |-> confidence]

RecognitionSamples ==
    {RecognitionFails,
     Recognised(<<"a">>, 95),
     Recognised(<<" ","b","\n">>, 60),
     Recognised(<<"c">>, 70),
     Recognised(<<" ">>, 30),
     Recognised(<<>>, 0)}

ExtractedSamples == {<<"e">>, <<"f","\n">>, <<>>}

ImagePage(n, outcome) ==
    [page |-> n, isTextOnly |-> FALSE, extractedText |-> <<>>, recognition |-> outcome]

TextPage(n, text) ==
    [page |-> n, isTextOnly |-> TRUE, extractedText |-> text, recognition |-> RecognitionFails]

PageArrays ==
    UNION {
      {[k \in 1..n |-> ImagePage(k, outcomes[k])] : outcomes \in [1..n -> RecognitionSamples]}
        \cup {[k \in 1..n |-> TextPage(k, texts[k])] : texts \in [1..n -> ExtractedSamples]}
      : n \in 1..MaxPages}

InitOcr ==
    /\ imagePages \in PageArrays
    /\ processedPages = 0
    /\ ocrPageResults = <<>>
    /\ ocrWorker = NoWorker
    /\ ocrSent = <<>>
    /\ structuredText = NullResult
    /\ liveWorkers = 0
    /\ settings = DefaultSettings
    /\ NoBatch
    /\ NoCorrector
    /\ rendered = NotRendered
    /\ NoStructureLoop
    /\ NoFlowCalls
    /\ NoLineCalls
    /\ NoDocumentCalls
    /\ NoWordCalls

\* One iteration of the loop of processImages (lines 1026-1067).
ProcessPage ==
    /\ structuredText = NullResult
    /\ processedPages < Len(imagePages)
    /\ \E outcome \in {"ready", "createFails", "parametersFail"} :
          LET page == imagePages[processedPages + 1]
              started == ~usesExtractedText(page) /\ ~ocrWorker.isInitialized
              after == IF usesExtractedText(page) THEN ocrWorker
                       ELSE initialize(ocrWorker, outcome)
          IN  /\ ~started => outcome = "ready"
              /\ ocrWorker' = after
              /\ ocrSent' = ocrSent
                    \o <<ProgressEvent(1, "ocr",
                            40 + RoundedShare(processedPages, Len(imagePages), 25))>>
                    \o (IF started /\ after.isInitialized
                        THEN <<ProgressEvent(1, "ocr", 65)>> ELSE <<>>)
              /\ ocrPageResults' =
                    Append(ocrPageResults, processImagesIteration(page, after.isInitialized))
              /\ liveWorkers' =
                    IF ~usesExtractedText(page) /\ createsWorker(ocrWorker, outcome)
                    THEN liveWorkers + 1 ELSE liveWorkers
    /\ processedPages' = processedPages + 1
    /\ UNCHANGED <<imagePages, structuredText>>
    /\ UNCHANGED <<settings, batchVars, correctorVars, rendered, structureVars, flowVars, lineVars, wordVars, docVars>>

\* The end of processImages (lines 1069-1081): the worker is cleaned up and
\* the page results are combined and returned.
ReturnStructuredText ==
    /\ structuredText = NullResult
    /\ processedPages = Len(imagePages)
    /\ \E terminated \in BOOLEAN :
          /\ ocrWorker.worker = "null" => terminated
          /\ ocrWorker' = cleanup(ocrWorker, terminated)
          /\ liveWorkers' =
                IF terminatesWorker(ocrWorker, terminated)
                THEN liveWorkers - 1 ELSE liveWorkers
    /\ ocrSent' = Append(ocrSent, ProgressEvent(1, "ocr", 65))
    /\ structuredText' = combinePageResults(ocrPageResults)
    /\ UNCHANGED <<imagePages, processedPages, ocrPageResults>>
    /\ UNCHANGED <<settings, batchVars, correctorVars, rendered, structureVars, flowVars, lineVars, wordVars, docVars>>

NextOcr ==
    \/ ProcessPage
    \/ ReturnStructuredText

SpecOcr == InitOcr /\ [][NextOcr]_vars

\* What page k of the input gives when its recognition is not cut short:
\* the extracted text, or the text Tesseract read.
pageTextOf(page) ==
    IF usesExtractedText(page) THEN page.extractedText ELSE page.recognition.text

\* The trimmed texts of the pages that have any, in the order of the pages.
RECURSIVE TrimmedTexts(_)
TrimmedTexts(pageResults) ==
    IF Len(pageResults) = 0 THEN <<>>
    ELSE (IF Len(Trim(pageResults[1].text)) > 0
          THEN <<Trim(pageResults[1].text)>> ELSE <<>>)
             \o TrimmedTexts(Tail(pageResults))

\* C13: processImages returns one page result per input page, in input
\* order; a page whose recognition failed has an empty text and every
\* other page has its own text; fullText is the trimmed texts of the pages
\* that have any, in page order, with one blank line between two of them.
C13_PagesInOrder ==
    structuredText.type = "object" =>
        /\ Len(structuredText.pages) = Len(imagePages)
        /\ \A k \in 1..Len(imagePages) :
              /\ structuredText.pages[k].page = imagePages[k].page
              /\ IF "error" \in DOMAIN structuredText.pages[k]
                 THEN structuredText.pages[k].text = <<>>
                 ELSE structuredText.pages[k].text = pageTextOf(imagePages[k])
        /\ structuredText.fullText
              = Join(TrimmedTexts(structuredText.pages), <<"\n", "\n">>)

\* Three pages, the second of which failed: the first and the third are in
\* fullText, in this order.
C13_Witness ==
    /\ structuredText.type = "object"
    /\ Len(imagePages) = 3
    /\ imagePages[2].recognition.fails
    /\ "error" \in DOMAIN structuredText.pages[2]
    /\ structuredText.pages[1].text = <<"a">>
    /\ structuredText.pages[3].text = <<" ","b","\n">>
    /\ structuredText.fullText = <<"a","\n","\n","b">>

\* The pages of a page array whose confidence is below 70, in page order.
RECURSIVE PagesBelow70(_)
PagesBelow70(pageResults) ==
    IF Len(pageResults) = 0 THEN <<>>
    ELSE (IF pageResults[1].confidence < 70
          THEN <<[page |-> pageResults[1].page,
                  confidence |-> pageResults[1].confidence]>>
          ELSE <<>>)
             \o PagesBelow70(Tail(pageResults))

\* C14: lowConfidencePages lists the pages whose confidence is below 70 and
\* no others, each once and in page order, the pages whose recognition
\* failed or gave no text among them, and the text of a page is in
\* fullText whatever its confidence is.
C14_LowConfidenceListed ==
    structuredText.type = "object" =>
        /\ structuredText.lowConfidencePages = PagesBelow70(structuredText.pages)
        /\ structuredText.fullText
              = Join(TrimmedTexts(structuredText.pages), <<"\n", "\n">>)

\* The decision C16 gives for a line and a paragraph buffer.
MergeByPriority(line, paragraph) ==
    LET lastLine == paragraph[Len(paragraph)]
        ended == Len(lastLine) >= 1 /\ lastLine[Len(lastLine)] \in {".", "!", "?"}
        capital == Len(line) >= 1 /\ line[1] \in Upper
    IN  IF Len(paragraph) = 0 THEN FALSE
        ELSE IF ended /\ capital THEN FALSE
        ELSE IF ~capital THEN TRUE
        ELSE IF ~ended THEN TRUE
        ELSE FALSE

\* The line the loop is at is a line of text that is neither heading-like
\* nor a list item.
AtPlainLine ==
    /\ loopIndex <= Len(loopLines)
    /\ Len(Trim(loopLines[loopIndex])) > 0
    /\ ~isPageMarker(Trim(loopLines[loopIndex]))
    /\ ~looksLikeHeading(Trim(loopLines[loopIndex]))
    /\ ~startsWithBullet(Trim(loopLines[loopIndex]))
    /\ ~startsWithNumber(Trim(loopLines[loopIndex]))

\* C16: for a line that is neither heading-like nor a list item, the loop
\* appends the line to the paragraph buffer exactly when the priority list
\* says merge: never with an empty buffer; not when the buffer's last line
\* ends with '.', '!' or '?' and the line starts with a capital; else when
\* the line does not start with a capital; else when the buffer's last
\* line is not ended.  'This sentence continues' and 'onto the next line.'
\* give one paragraph; 'This ends.' and 'Next Sentence starts.' give two.
C16_MergePriority ==
    /\ [][(AtPlainLine /\ Len(loopParagraph) > 0) =>
            ( (loopParagraph' = Append(loopParagraph, Trim(loopLines[loopIndex])))
                <=> MergeByPriority(Trim(loopLines[loopIndex]), loopParagraph) )]_vars
    /\ [][(AtPlainLine /\ Len(loopParagraph) = 0) =>
            /\ ~shouldMergeWithPrevious(Trim(loopLines[loopIndex]), loopParagraph)
            /\ loopParagraph' = <<Trim(loopLines[loopIndex])>>]_vars
    /\ []((loopIndex = Len(loopLines) + 2 /\ loopLines = <<LineContinues, LineOnto>>)
            => loopProcessed = <<LineContinues \o <<" ">> \o LineOnto>>)
    /\ []((loopIndex = Len(loopLines) + 2 /\ loopLines = <<LineEnds, LineNextSentence>>)
            => loopProcessed = <<LineEnds, LineNextSentence>>)

\* The second line of the first example has been merged into the buffer.
C16_Witness ==
    /\ loopLines = <<LineContinues, LineOnto>>
    /\ loopIndex = 3
    /\ loopParagraph = <<LineContinues, LineOnto>>

\* The members of a set of line numbers, in ascending order.
RECURSIVE Ascending(_)
Ascending(S) == IF S = {} THEN <<>> ELSE <<MinOf(S)>> \o Ascending(S \ {MinOf(S)})

\* The trimmed input lines with the numbers in S, joined by one space.
JoinedLines(S) ==
    Join([k \in 1..Cardinality(S) |-> Trim(loopLines[Ascending(S)[k]])], <<" ">>)

\* The input lines that are not page markers.
KeptLines == {j \in 1..Len(loopLines) : ~isPageMarker(Trim(loopLines[j]))}

\* C17: restoreTextStructure drops the page markers and nothing else: when
\* the loop has returned, every other input line is in exactly one output
\* line, the output lines hold the input lines in input order, a blank
\* input line gives one blank output line of its own, and the output line
\* is the trimmed input lines it holds joined by spaces; a page marker
\* leaves the pending paragraph and the output as they are.
C17_OnlyMarkersDropped ==
    /\ []( loopIndex = Len(loopLines) + 2 =>
            /\ Len(loopProcessed) = Len(processedFrom)
            /\ UNION {processedFrom[k] : k \in DOMAIN processedFrom} = KeptLines
            /\ \A k, m \in DOMAIN processedFrom :
                  k < m => \A a \in processedFrom[k], b \in processedFrom[m] : a < b
            /\ \A k \in DOMAIN processedFrom :
                  /\ processedFrom[k] # {}
                  /\ loopProcessed[k] = JoinedLines(processedFrom[k])
                  /\ \A j \in processedFrom[k] :
                        Len(Trim(loopLines[j])) = 0 => processedFrom[k] = {j} )
    /\ [][(loopIndex <= Len(loopLines) /\ isPageMarker(Trim(loopLines[loopIndex])))
            => (loopParagraph' = loopParagraph /\ loopProcessed' = loopProcessed)]_vars
    /\ [][(loopIndex <= Len(loopLines) /\ Len(Trim(loopLines[loopIndex])) = 0)
            => (loopParagraph' = <<>>
                /\ loopProcessed' = Append(structureFlush(loopProcessed, loopParagraph), <<>>))]_vars

\* A paragraph that goes on across a page marker, and a blank line.
C17_Witness ==
    /\ loopLines = <<LineContinues, TextMarker, LineOnto>>
    /\ loopIndex = Len(loopLines) + 2
    /\ loopProcessed = <<LineContinues \o <<" ">> \o LineOnto>>

-----------------------------------------------------------------------------
(* SpecLines: detectHeading, detectListItem and processContent called with *)
(* one line: at most MaxIndent spaces, a marker, a gap and a body.         *)

MaxIndent == 4

LineMarkers ==
    {<<>>, <<"1",".">>, <<"3",")">>, <<"7",".">>, <<"I",".">>, <<"I","V",")">>, <<"A",".">>, <<"b",".">>, <<"-">>, <<"*">>, <<"U+2022">>,
     <<"1",".","1">>, <<"C","H","A","P","T","E","R">>, <<"P","a","r","t">>}

LineGaps == {<<>>, <<" ">>}

\* 'HELLO WORLD' and a line of capitals of 35 characters.
LineHelloWorld == <<"H","E","L","L","O"," ","W","O","R","L","D">>

LineLongCapitals == <<"A"," ","L","O","N","G"," ","H","E","A","D","I","N","G"," ","L","I","N","E"," ","A","L","L"," ","I","N"," ","C","A","P","I","T","A","L","S">>

LineBodies == {<<>>, <<"I","N","T","R","O","D","U","C","T","I","O","N">>, <<"I","n","t","r","o">>, <<"i","t","e","m">>, LineHelloWorld, LineLongCapitals}

\* '1. INTRODUCTION'
LineNumberedIntroduction == <<"1","."," ","I","N","T","R","O","D","U","C","T","I","O","N">>

InitLines ==
    /\ \E w \in 0..MaxIndent, marker \in LineMarkers, gap \in LineGaps, body \in LineBodies :
          lineIn = Repeat(<<" ">>, w) \o marker \o gap \o body
    /\ lineCalls = {}
    /\ headingOut = NoHeading
    /\ listItemOut = <<>>
    /\ contentOut = [thrown |-> FALSE, content |-> <<>>]
    /\ settings = DefaultSettings
    /\ NoBatch
    /\ NoCorrector
    /\ rendered = NotRendered
    /\ NoStructureLoop
    /\ NoFlowCalls
    /\ NoOcr
    /\ NoDocumentCalls
    /\ NoWordCalls

CallDetectHeading ==
    /\ "detectHeading" \notin lineCalls
    /\ headingOut' = detectHeading(lineIn)
    /\ lineCalls' = lineCalls \cup {"detectHeading"}
    /\ UNCHANGED <<lineIn, listItemOut, contentOut>>
    /\ UNCHANGED <<settings, batchVars, correctorVars, rendered, structureVars, flowVars, ocrVars, wordVars, docVars>>

CallDetectListItem ==
    /\ "detectListItem" \notin lineCalls
    /\ listItemOut' = detectListItem(lineIn)
    /\ lineCalls' = lineCalls \cup {"detectListItem"}
    /\ UNCHANGED <<lineIn, headingOut, contentOut>>
    /\ UNCHANGED <<settings, batchVars, correctorVars, rendered, structureVars, flowVars, ocrVars, wordVars, docVars>>

CallProcessContent ==
    /\ "processContent" \notin lineCalls
    /\ contentOut' = processContent(lineIn)
    /\ lineCalls' = lineCalls \cup {"processContent"}
    /\ UNCHANGED <<lineIn, headingOut, listItemOut>>
    /\ UNCHANGED <<settings, batchVars, correctorVars, rendered, structureVars, flowVars, ocrVars, wordVars, docVars>>

NextLines ==
    \/ CallDetectHeading
    \/ CallDetectListItem
    \/ CallProcessContent

SpecLines == InitLines /\ [][NextLines]_vars

\* The patterns of the table that match the line, by their index.
MatchingPatterns == {p \in 0..5 : Len(matchHeadingPattern(lineIn, p)) > 0}

AllCapitalsLine ==
    /\ Len(lineIn) >= 3
    /\ Len(lineIn) < 50
    /\ lineIn[1] \in Upper
    /\ \A k \in 1..Len(lineIn) : lineIn[k] \in Upper \cup WS

\* C19: detectHeading of a line of capitals and white space shorter than 50
\* characters is a heading of level 2 when the line is shorter than 30
\* characters and of level 3 otherwise, with the line in title case as its
\* text: 'HELLO WORLD' gives level 2 and 'Hello World'.
C19_AllCapsHeading ==
    ("detectHeading" \in lineCalls /\ AllCapitalsLine) =>
        /\ headingOut.kind = "heading"
        /\ headingOut.level = (IF Len(lineIn) < 30 THEN 2 ELSE 3)
        /\ headingOut.text = toTitleCase(lineIn)
        /\ lineIn = LineHelloWorld => headingOut.text = <<"H","e","l","l","o"," ","W","o","r","l","d">>

\* The number of white-space characters the line starts with.
LeadingWidth == SkipWhile(lineIn, 1, WS) - 1

\* The list item of nesting level floor(w / 2) + 1 for the line: its
\* indentation of two spaces per level above the first, then the item.
ExpectedListItem ==
    LET level == (LeadingWidth \div 2) + 1
        item == detectListItem(Trim(lineIn))[1].markdown
    IN  [level |-> level, markdown |-> Repeat(<<" ">>, 2 * (level - 1)) \o item]

\* C20: a bullet or numbered line with w leading white-space characters is
\* rendered as a list item of level floor(w / 2) + 1, indented by
\* 2 * (level - 1) spaces, by detectListItem and by processContent alike.
C20_ListNesting ==
    Len(detectListItem(Trim(lineIn))) > 0 =>
        /\ "detectListItem" \in lineCalls =>
              /\ Len(listItemOut) = 1
              /\ listItemOut[1].level = ExpectedListItem.level
              /\ listItemOut[1].markdown = ExpectedListItem.markdown
        /\ "processContent" \in lineCalls =>
              /\ ~contentOut.thrown
              /\ contentOut.content = ExpectedListItem.markdown

\* The half of C20 that is about detectListItem.
ListItemNesting ==
    (Len(detectListItem(Trim(lineIn))) > 0 /\ "detectListItem" \in lineCalls) =>
        /\ Len(listItemOut) = 1
        /\ listItemOut[1].level = ExpectedListItem.level
        /\ listItemOut[1].markdown = ExpectedListItem.markdown

-----------------------------------------------------------------------------
(* SpecWords: chooseBestSuggestion, performSpellCheck, fixCharacterErrors  *)
(* and fixWordErrors called with one argument list: a word with at most    *)
(* MaxSuggestions suggestions, or a text with an oracle and a dictionary.  *)

MaxSuggestions == 2

\* 'te', 'THA', 'wrold' and 'recieve': words of 2, 3, 5 and 7 characters.
WordSamples == {<<"t","e">>, <<"T","H","A">>, <<"w","r","o","l","d">>, <<"r","e","c","i","e","v","e">>}

SuggestionSamples == {<<"t","h","e">>, <<"w","o","r","l","d">>, <<"r","e","c","e","i","v","e">>, <<"r","e","s","e","r","v","e">>}

TextWrold == <<"w","r","o","l","d">>

TextThsi == <<"t","h","s","i">>

TextThaEnd == <<"t","h","a"," ","e","n","d",","," ","x">>

\* The texts performSpellCheck is called with.
SpellTexts ==
    {TextWrold, TextThsi, TextThaEnd, <<"t","h","i","s"," ","t","h","a">>, <<"H","e","l","l","o"," ","w","r","o","l","d"," ","(","t","h","a",")">>, <<" ","a","."," ","t","h","a">>}

\* Each key of wordErrors, in lower case and in capitals.
ArtifactTexts ==
    UNION {{wordErrors[k][1], toUpperCase(wordErrors[k][1])} : k \in 1..Len(wordErrors)}

TextC1 == <<"c","1">>

\* Texts in which more than one rule of characterErrors has something to do.
CharacterTexts ==
    {TextC1, <<"c","1","a","s","s">>, <<"r","n","o","d","e","r","n"," ","c","l","o","o","r">>, <<"i","i","0">>, <<"v","v","V","V">>, <<"n","n","o","o">>, <<"r","1","n">>, <<"5"," ","8">>}

CustomDictionaries == {{}, {<<"t","h","a">>}}

WordArguments ==
    {[originalWord |-> w, suggestions |-> s, aggressiveMode |-> a,
      text |-> <<>>, checker |-> "null", customDictionary |-> {}] :
        w \in WordSamples, s \in StringsUpTo(SuggestionSamples, MaxSuggestions),
        a \in BOOLEAN}

TextArguments ==
    {[originalWord |-> <<>>, suggestions |-> <<>>, aggressiveMode |-> a,
      text |-> t, checker |-> c, customDictionary |-> d] :
        t \in SpellTexts \cup ArtifactTexts \cup CharacterTexts,
        c \in {"null", "nspell", "fallback"}, d \in CustomDictionaries,
        a \in BOOLEAN}

InitWords ==
    /\ wordIn \in WordArguments \cup TextArguments
    /\ wordCalls = {}
    /\ suggestionOut = <<>>
    /\ spellOut = <<>>
    /\ characterOut = <<>>
    /\ wordOut = <<>>
    /\ settings = DefaultSettings
    /\ NoBatch
    /\ NoCorrector
    /\ rendered = NotRendered
    /\ NoStructureLoop
    /\ NoFlowCalls
    /\ NoOcr
    /\ NoLineCalls
    /\ NoDocumentCalls

CallChooseBestSuggestion ==
    /\ "chooseBestSuggestion" \notin wordCalls
    /\ suggestionOut' = chooseBestSuggestion(wordIn.originalWord, wordIn.suggestions,
                                             wordIn.aggressiveMode)
    /\ wordCalls' = wordCalls \cup {"chooseBestSuggestion"}
    /\ UNCHANGED <<wordIn, spellOut, characterOut, wordOut>>
    /\ UNCHANGED <<settings, batchVars, correctorVars, rendered, structureVars, flowVars, ocrVars, lineVars, docVars>>

CallPerformSpellCheck ==
    /\ "performSpellCheck" \notin wordCalls
    /\ spellOut' = performSpellCheck(wordIn.text, wordIn.checker, wordIn.customDictionary,
                                     wordIn.aggressiveMode)
    /\ wordCalls' = wordCalls \cup {"performSpellCheck"}
    /\ UNCHANGED <<wordIn, suggestionOut, characterOut, wordOut>>
    /\ UNCHANGED <<settings, batchVars, correctorVars, rendered, structureVars, flowVars, ocrVars, lineVars, docVars>>

\* Step 1 of processText.
CallFixCharacterErrors ==
    /\ "fixCharacterErrors" \notin wordCalls
    /\ characterOut' = fixCharacterErrors(wordIn.text)
    /\ wordCalls' = wordCalls \cup {"fixCharacterErrors"}
    /\ UNCHANGED <<wordIn, suggestionOut, spellOut, wordOut>>
    /\ UNCHANGED <<settings, batchVars, correctorVars, rendered, structureVars, flowVars, ocrVars, lineVars, docVars>>

\* Step 2 of processText: fixWordErrors runs on what step 1 returned.
CallFixWordErrors ==
    /\ "fixCharacterErrors" \in wordCalls
    /\ "fixWordErrors" \notin wordCalls
    /\ wordOut' = fixWordErrors(characterOut)
    /\ wordCalls' = wordCalls \cup {"fixWordErrors"}
    /\ UNCHANGED <<wordIn, suggestionOut, spellOut, characterOut>>
    /\ UNCHANGED <<settings, batchVars, correctorVars, rendered, structureVars, flowVars, ocrVars, lineVars, docVars>>

NextWords ==
    \/ CallChooseBestSuggestion
    \/ CallPerformSpellCheck
    \/ CallFixCharacterErrors
    \/ CallFixWordErrors

SpecWords == InitWords /\ [][NextWords]_vars

-----------------------------------------------------------------------------
(* Properties of SpecWords.                                                *)

\* C21: with a non-empty suggestion list chooseBestSuggestion returns the
\* first suggestion in aggressive mode, and in non-aggressive mode returns
\* it exactly when its case-insensitive edit distance d to the original word
\* of length n is at most max(1, floor(0.3 n)), that is d <= 1 or
\* 10 d <= 3 n, and null otherwise; it returns no other suggestion.
C21_TopSuggestionWithinDistance ==
    ("chooseBestSuggestion" \in wordCalls /\ Len(wordIn.suggestions) > 0) =>
        LET top == wordIn.suggestions[1]
            d == LevenshteinDistance(toLowerCase(wordIn.originalWord), toLowerCase(top))
            near == d <= 1 \/ 10 * d <= 3 * Len(wordIn.originalWord)
        IN  suggestionOut = IF wordIn.aggressiveMode \/ near THEN top ELSE NoSuggestion

\* 'recieve' with 'receive' first, at distance 2 = floor(0.3 * 7), is
\* accepted in non-aggressive mode.
C21_Witness ==
    /\ "chooseBestSuggestion" \in wordCalls
    /\ ~wordIn.aggressiveMode
    /\ wordIn.originalWord = <<"r","e","c","i","e","v","e">>
    /\ wordIn.suggestions = <<<<"r","e","c","e","i","v","e">>, <<"t","h","e">>>>
    /\ suggestionOut = <<"r","e","c","e","i","v","e">>

\* C22: the nspell oracle reports 'wrold' as misspelled and suggests 'world'
\* first, and performSpellCheck in non-aggressive mode turns 'wrold' into
\* 'world'; 'thsi', at distance 2 from its top suggestion 'the', is left
\* alone in non-aggressive mode and replaced in aggressive mode.
C22_WroldCorrected ==
    /\ ( /\ "performSpellCheck" \in wordCalls
         /\ wordIn.text = TextWrold
         /\ wordIn.checker = "nspell"
         /\ wordIn.customDictionary = {}
         /\ ~wordIn.aggressiveMode
         /\ ~nspellCorrect(TextWrold)
         /\ nspellSuggest(TextWrold)[1] = <<"w","o","r","l","d">> )
       => spellOut = <<"w","o","r","l","d">>
    /\ ( /\ "performSpellCheck" \in wordCalls
         /\ wordIn.text = TextThsi
         /\ wordIn.checker = "fallback"
         /\ wordIn.customDictionary = {} )
       => spellOut = IF wordIn.aggressiveMode THEN <<"t","h","e">> ELSE TextThsi

\* The oracle's verdict on a key: nspell's correct() says the word is
\* spelled correctly, the fallback's isValidWord likewise.
ReportedMisspelled(checker, key, customDictionary) ==
    IF checker = "nspell" THEN ~nspellCorrect(key)
    ELSE ~isValidWord(key, customDictionary)

\* C23: performSpellCheck keeps the number of tokens, and a token comes out
\* changed only if its key has at least 2 characters, the lower-cased key is
\* not in the custom dictionary, the oracle reports the key as misspelled and
\* returns at least one suggestion; without an oracle the text is returned
\* as it is.  This holds with the nspell oracle and with the fallback.
C23_OnlyMisspelledTokensChange ==
    "performSpellCheck" \in wordCalls =>
        IF wordIn.checker = "null" THEN spellOut = wordIn.text
        ELSE LET words == splitWhitespace(wordIn.text, 1)
                 out == Split(spellOut, " ")
             IN  /\ Len(out) = Len(words)
                 /\ \A k \in 1..Len(words) :
                       out[k] # words[k] =>
                           LET key == cleanWordOf(words[k])
                           IN  /\ Len(key) >= 2
                               /\ toLowerCase(key) \notin wordIn.customDictionary
                               /\ ReportedMisspelled(wordIn.checker, key,
                                                     wordIn.customDictionary)
                               /\ Len(checkerSuggest(wordIn.checker, key)) > 0

\* The fallback oracle changes 'tha' and 'end,' of 'tha end, x' and leaves
\* 'x' alone.
C23_Witness ==
    /\ "performSpellCheck" \in wordCalls
    /\ wordIn.checker = "fallback"
    /\ wordIn.customDictionary = {}
    /\ wordIn.text = TextThaEnd
    /\ spellOut = <<"t","h","e"," ","a","n","d",","," ","x">>

\* With the nspell oracle no token changes at all.
NspellChangesNothing ==
    ("performSpellCheck" \in wordCalls /\ wordIn.checker = "nspell") =>
        spellOut = JoinSpace(splitWhitespace(wordIn.text, 1))

\* C24: a text that is a key e of wordErrors, in any letter case, comes out
\* of the character pass followed by the word pass as its correction c.
C24_ArtifactsCorrected ==
    "fixWordErrors" \in wordCalls =>
        \A k \in 1..Len(wordErrors) :
            toLowerCase(wordIn.text) = wordErrors[k][1] => wordOut = wordErrors[k][2]

\* The keys without 'ii' do come out corrected.
ArtifactsWithoutDoubleI ==
    "fixWordErrors" \in wordCalls =>
        \A k \in 1..Len(wordErrors) :
            (toLowerCase(wordIn.text) = wordErrors[k][1] /\ ~Includes(wordIn.text, <<"i","i">>))
                => wordOut = wordErrors[k][2]

\* C25: fixCharacterErrors applies the rules of characterErrors one after
\* the other in the order the table is written, from rn -> m to oo -> o.
C25_RulesInWrittenOrder ==
    "fixCharacterErrors" \in wordCalls =>
        characterOut = applyLiteralRules(wordIn.text, characterErrors)

-----------------------------------------------------------------------------
(* SpecDocument: processContent and generate called with a document of at  *)
(* most MaxDocLines lines, each a line of code, a paragraph, a blank line, *)
(* a numbered heading, a list item or a row of a table.                    *)

MaxDocLines == 3

LineCode == <<"x"," ","="," ","1",";">>

LineText == <<"T","e","x","t">>

LineHeading == <<"1","."," ","I","n","t","r","o">>

LineItem == <<"-"," ","i","t","e","m">>

LineRow == <<"a"," "," ","b">>

DocumentLines == {LineCode, LineText, <<>>, LineHeading, LineItem, LineRow}

Documents ==
    {Join(lines, <<"\n">>) : lines \in UNION {[1..n -> DocumentLines] : n \in 1..MaxDocLines}}

InitDocument ==
    /\ docIn \in Documents
    /\ docOptions \in [sourceURL : {SampleURL}, metadata : BOOLEAN,
                       includeTableOfContents : BOOLEAN]
    /\ docCalls = {}
    /\ docContent = [thrown |-> FALSE, content |-> <<>>]
    /\ docMarkdown = [thrown |-> FALSE, markdown |-> <<>>]
    /\ settings = DefaultSettings
    /\ NoBatch
    /\ NoCorrector
    /\ rendered = NotRendered
    /\ NoStructureLoop
    /\ NoFlowCalls
    /\ NoOcr
    /\ NoLineCalls
    /\ NoWordCalls

CallProcessContentDocument ==
    /\ "processContent" \notin docCalls
    /\ docContent' = processContent(docIn)
    /\ docCalls' = docCalls \cup {"processContent"}
    /\ UNCHANGED <<docIn, docOptions, docMarkdown>>
    /\ UNCHANGED <<settings, batchVars, correctorVars, rendered, structureVars, flowVars, ocrVars, lineVars, wordVars>>

CallGenerateDocument ==
    /\ "generate" \notin docCalls
    /\ docMarkdown' = generate([isString |-> TRUE, str |-> docIn], docOptions, 0)
    /\ docCalls' = docCalls \cup {"generate"}
    /\ UNCHANGED <<docIn, docOptions, docContent>>
    /\ UNCHANGED <<settings, batchVars, correctorVars, rendered, structureVars, flowVars, ocrVars, lineVars, wordVars>>

NextDocument ==
    \/ CallProcessContentDocument
    \/ CallGenerateDocument

SpecDocument == InitDocument /\ [][NextDocument]_vars

-----------------------------------------------------------------------------
(* Properties of SpecDocument.                                             *)

\* The lines of the content processContent returned.
ContentLines == Split(docContent.content, "\n")

\* The number of fences among the first k lines.
FencesUpTo(lines, k) == Cardinality({j \in 1..k : lines[j] = Fence})

\* C26: in the content processContent returns, every line between an
\* opening fence and its closing fence is a line of code (the fence was
\* closed before the first line that is not code-like was put out), and
\* every opened fence is closed.
C26_FenceClosedAtFirstNonCode ==
    ("processContent" \in docCalls /\ ~docContent.thrown) =>
        /\ FencesUpTo(ContentLines, Len(ContentLines)) % 2 = 0
        /\ \A k \in 1..Len(ContentLines) :
              (ContentLines[k] # Fence /\ FencesUpTo(ContentLines, k) % 2 = 1)
                  => looksLikeCode(ContentLines[k])

\* Every opened fence is closed by the end of the document.
FencesPaired ==
    ("processContent" \in docCalls /\ ~docContent.thrown) =>
        FencesUpTo(ContentLines, Len(ContentLines)) % 2 = 0

\* A paragraph that follows the code does close the fence before it.
ParagraphClosesFence ==
    ("processContent" \in docCalls /\ docIn = Join(<<LineCode, LineText>>, <<"\n">>)) =>
        docContent.content = Join(<<Fence, LineCode, Fence, LineText>>, <<"\n">>)

\* The lines of the markdown generate returned, without what follows the
\* last newline.
MarkdownLines == Split(docMarkdown.markdown, "\n")

\* C27: the markdown generate returns has no run of more than two blank
\* lines, no line that ends in white space, and exactly one newline at its
\* end.
C27_CleanedUp ==
    ("generate" \in docCalls /\ ~docMarkdown.thrown) =>
        LET m == docMarkdown.markdown
            lines == MarkdownLines
        IN  /\ \A k \in 1..(Len(lines) - 3) :
                  ~(lines[k] = <<>> /\ lines[k + 1] = <<>> /\ lines[k + 2] = <<>>)
            /\ \A k \in 1..Len(lines) :
                  Len(lines[k]) > 0 => lines[k][Len(lines[k])] \notin WS
            /\ Len(m) >= 1 /\ m[Len(m)] = "\n"
            /\ (Len(m) >= 2 => m[Len(m) - 1] # "\n")

\* The two other parts of the clean-up hold.
NoTrailingWhitespace ==
    ("generate" \in docCalls /\ ~docMarkdown.thrown) =>
        LET m == docMarkdown.markdown
        IN  /\ \A k \in 1..Len(MarkdownLines) :
                  Len(MarkdownLines[k]) > 0
                      => MarkdownLines[k][Len(MarkdownLines[k])] \notin WS
            /\ Len(m) >= 1 /\ m[Len(m)] = "\n"
            /\ (Len(m) >= 2 => m[Len(m) - 1] # "\n")

\* C30: an OCRWorker never holds more than one live worker (it does not
\* get a new one while an earlier one is alive), and when processImages has
\* returned with this.worker cleared every worker that was created has been
\* terminated.
C30_WorkersTerminated ==
    /\ liveWorkers <= 1
    /\ (structuredText # NullResult /\ ocrWorker.worker = "null") => liveWorkers = 0

=============================================================================
